---------------------------- MODULE Spec2Model ----------------------------
(***************************************************************************)
(* Model of the repository acquisition pipeline of Docagent.py:            *)
(* EnhancedDocumentationFlow.clone_repository and its helpers, driven by   *)
(* execute_flow, execute_enhanced_flow or a direct call.                   *)
(*                                                                         *)
(* Strings are sequences of one-character strings, so that strip, the      *)
(* regular expression, split and replace are computed as the code does.    *)
(***************************************************************************)
EXTENDS Integers, Sequences, FiniteSets, TLC

(***************************************************************************)
(* Bounds                                                                  *)
(***************************************************************************)
\* longest text after "https://github.com/<owner>/" drawn in SpecUrl
MaxNameLen == 5

(***************************************************************************)
(* Characters and strings                                                  *)
(***************************************************************************)
\* the characters \w matches, as far as the inputs use them
WordChars == {"a", "b", "c", "g", "h", "i", "m", "o", "p", "q", "r", "s", "t", "u", "_"}
\* the character class [\w\-\.]
SegChars == WordChars \cup {"-", "."}
\* the characters str.strip() removes
Whitespace == {" ", "\n"}

\* the literal head of the pattern, https://github\.com/
GithubPrefix == <<"h","t","t","p","s",":","/","/","g","i","t","h","u","b",".","c","o","m","/">>
DotGit == <<".","g","i","t">>

RECURSIVE LStrip(_)
LStrip(s) == IF s # <<>> /\ Head(s) \in Whitespace THEN LStrip(Tail(s)) ELSE s

RECURSIVE RStrip(_)
RStrip(s) ==
    IF s # <<>> /\ s[Len(s)] \in Whitespace THEN RStrip(SubSeq(s, 1, Len(s) - 1)) ELSE s

\* str.strip()
Strip(s) == RStrip(LStrip(s))

StartsWith(s, p) == Len(s) >= Len(p) /\ SubSeq(s, 1, Len(p)) = p

\* length of the longest head of s made of characters of SegChars: [\w\-\.]+ is greedy
RECURSIVE SegLen(_)
SegLen(s) == IF s # <<>> /\ Head(s) \in SegChars THEN 1 + SegLen(Tail(s)) ELSE 0

Drop(s, n) == SubSeq(s, n + 1, Len(s))

\* /?$ : an optional slash, then the end of the string or a final newline
MatchesTail(s) == s \in {<<>>, <<"/">>, <<"\n">>, <<"/", "\n">>}

\* re.match(r"^https://github\.com/[\w\-\.]+/[\w\-\.]+/?$", s)
MatchesPattern(s) ==
    /\ StartsWith(s, GithubPrefix)
    /\ LET r1 == Drop(s, Len(GithubPrefix))
           n1 == SegLen(r1)
       IN  /\ n1 >= 1
           /\ Len(r1) > n1
           /\ r1[n1 + 1] = "/"
           /\ LET r2 == Drop(r1, n1 + 1)
                  n2 == SegLen(r2)
              IN  /\ n2 >= 1
                  /\ MatchesTail(Drop(r2, n2))

\* _validate_github_url
ValidateGithubUrl(url) == MatchesPattern(Strip(url))

\* project_url.split("/")[-1]
RECURSIVE LastSegment(_)
LastSegment(s) ==
    IF \E i \in 1..Len(s) : s[i] = "/"
    THEN LastSegment(Drop(s, CHOOSE i \in 1..Len(s) : s[i] = "/"))
    ELSE s

\* str.replace(".git", ""): every occurrence, left to right, without overlap
RECURSIVE RemoveDotGit(_)
RemoveDotGit(s) ==
    IF s = <<>> THEN <<>>
    ELSE IF StartsWith(s, DotGit) THEN RemoveDotGit(Drop(s, Len(DotGit)))
    ELSE <<Head(s)>> \o RemoveDotGit(Tail(s))

\* repo_name = project_url.split("/")[-1].replace(".git", "")
RepoName(url) == RemoveDotGit(LastSegment(url))

(***************************************************************************)
(* Paths: where workdir / repo_name lies                                   *)
(***************************************************************************)
BaseDir == [kind |-> "base", name |-> <<>>]
ParentDir == [kind |-> "parent", name |-> <<>>]
ChildDir(n) == [kind |-> "child", name |-> n]

\* repo_path = workdir / repo_name: an empty name and "." give workdir
\* itself, ".." gives the directory that contains workdir
RepoPath(url) ==
    LET n == RepoName(url)
    IN  IF n \in {<<>>, <<".">>} THEN BaseDir
        ELSE IF n = <<".", ".">> THEN ParentDir
        ELSE ChildDir(n)

(***************************************************************************)
(* State                                                                   *)
(***************************************************************************)
VARIABLES
    state,      \* flow.state: the DocumentationState, or none
    tools,      \* flow.tools: the AdvancedRepositoryTools, or none
    disk,       \* the directories the pipeline can touch
    entryDisk,  \* history: the disk when the current call started
    entry,      \* who called clone_repository in the current run
    url,        \* project_url of the current call
    pc,         \* position inside the current run
    repo_path,  \* local variable repo_path of clone_repository
    attempt,    \* loop variable of the cleanup loop, then of the clone loop
    ret,        \* how the last clone_repository call ended
    result,     \* status handed to the caller of the run
    steps,      \* history: steps of clone_repository executed in this call
    last,       \* history: what the environment answered to the latest step
    removals,   \* history: removal strategies tried in this call
    cmds,       \* history: git clone invocations of this call
    phases,     \* history: phases started after the clone in this run
    refIn,      \* SpecUrl: the reference string under test
    refOut,     \* SpecUrl: what the code computes from it
    tree,       \* the files under tools.repo_path that a walk can meet
    bulk,       \* the number of further directories under it, which hold no file
    listing,    \* the immediate children of the directory given to directory_read
    file_cache, \* tools.file_cache
    error_count,\* tools.error_count
    toolOut,    \* what the latest call of a tool returned
    plan,       \* state.plan.docs: the titles of the planned sections
    generated_docs, \* state.generated_docs
    docs_dir,   \* the files under docs/ and the section each one holds
    doc_pc,     \* position inside enhanced_documentation_phase
    bot,        \* which chat bot script the server runs
    messages,   \* st.session_state.langchain_messages of every session
    script,     \* where every session's run of the script is, and its variables
    audio_files,      \* the files of the chat bot's working and temporary directory
    given       \* how many inputs every session has given

flowVars == <<state, tools, disk, entryDisk, entry, url, pc, repo_path, attempt, ret, result,
              steps, last, removals, cmds, phases>>
urlVars == <<refIn, refOut>>
toolVars == <<tree, bulk, listing, file_cache, error_count, toolOut>>
docVars == <<plan, generated_docs, docs_dir, doc_pc>>
chatVars == <<bot, messages, script, audio_files, given>>
vars == <<state, tools, disk, entryDisk, entry, url, pc, repo_path, attempt, ret, result,
          steps, last, removals, cmds, phases, refIn, refOut,
          tree, bulk, listing, file_cache, error_count, toolOut, plan, generated_docs, docs_dir, doc_pc,
          bot, messages, script, audio_files, given>>

(***************************************************************************)
(* References used by the runs of Spec                                     *)
(***************************************************************************)
Ref(rest) == GithubPrefix \o <<"o", "/">> \o rest

FlowUrls ==
    { Ref(<<"r">>),               \* https://github.com/o/r
      <<" ">> \o Ref(<<"r">>),    \* the same after a blank
      Ref(<<"r", "/", "q">>) }    \* an extra path segment

NoPath == [kind |-> "none", name |-> <<>>]
\* the directories of the runs of Spec: workdir and the targets below it
Locs == {BaseDir} \cup {RepoPath(u) : u \in {v \in FlowUrls : ValidateGithubUrl(v)}}

(***************************************************************************)
(* The disk                                                                *)
(***************************************************************************)
\* st: absent, file, or a directory that is empty / has entries but no .git /
\* has entries and .git.  runs: which calls wrote the content ("cur" is the
\* call in progress, "old" any earlier one).
Absent == [st |-> "absent", runs |-> {}]
EmptyDir == [st |-> "empty", runs |-> {}]

\* the locations below l
Under(l) ==
    IF l = ParentDir THEN Locs \ {ParentDir}
    ELSE IF l = BaseDir THEN {x \in Locs : x.kind = "child"}
    ELSE {}

\* Path.exists()
Exists(d, l) == d[l].st # "absent"
\* Path.is_dir()
IsDir(d, l) == d[l].st \in {"empty", "nogit", "git"}
\* len(list(Path.iterdir())) > 0
NonEmpty(d, l) == d[l].st \in {"nogit", "git"} \/ \E x \in Under(l) : Exists(d, x)
\* git refuses a destination that exists and is not an empty directory
Occupied(d, l) == d[l].st = "file" \/ NonEmpty(d, l)
\* (repo_path / ".git").exists()
HasGit(d, l) == d[l].st = "git"

\* a recursive removal, or a rename, takes the directory and all below it
Remove(d, l) == [x \in Locs |-> IF x = l \/ x \in Under(l) THEN Absent ELSE d[x]]

\* a new call starts: what is on disk was written by an earlier call
Age(d) == [x \in Locs |-> [d[x] EXCEPT !.runs = IF @ = {} THEN {} ELSE {"old"}]]

\* every run tag found at l or below it
RunsAt(d, l) == UNION {d[x].runs : x \in {l} \cup Under(l)}

(***************************************************************************)
(* The flow object                                                         *)
(***************************************************************************)
\* of DocumentationState the fields clone_repository and the phases write
NoState == [set |-> FALSE, repo_path |-> NoPath, current_phase |-> "none"]
\* DocumentationState(project_url=u): repo_path None, current_phase "init"
DocumentationState(u) == [set |-> TRUE, repo_path |-> NoPath, current_phase |-> "init"]

NoTools == [set |-> FALSE, repo_path |-> NoPath]
\* AdvancedRepositoryTools(repo_path)
AdvancedRepositoryTools(l) == [set |-> TRUE, repo_path |-> l]

(***************************************************************************)
(* What the environment can answer                                         *)
(***************************************************************************)
\* urlopen("https://github.com"): a response with status 200, a response with
\* another status, or an exception
ConnectivityAnswers == {"200", "other_status", "exception"}

\* urlopen(project_url): a response with status 200 or another status, an
\* HTTPError with code 404, 403 or another code, a URLError (no DNS answer, no
\* connection), or an exception of another class (a read timeout, a broken
\* HTTP exchange)
ProbeAnswers ==
    {"200", "other_status", "http_404", "http_403", "http_other", "url_error", "other_exception"}

\* the phrases clone_repository looks for in git's stderr
ExistsPhrase == "already exists and is not an empty directory"
NotFoundPhrases == {"not found", "does not exist"}
DeniedPhrases == {"permission denied", "forbidden"}
\* stderr of a failed git clone, as the set of those phrases it contains
Stderrs == {{}} \cup {{ph} : ph \in {ExistsPhrase} \cup NotFoundPhrases \cup DeniedPhrases}

\* what can be found at the destination after git exited with code 0
PostStates ==
    { Absent,
      [st |-> "file", runs |-> {"cur"}],
      EmptyDir,
      [st |-> "nogit", runs |-> {"cur"}],
      [st |-> "git", runs |-> {"cur"}] }

\* what a killed git clone leaves behind
Partial == [st |-> "nogit", runs |-> {"cur"}]

\* git writes its content into the destination: on top of what is there
WriteInto(d, l, c) ==
    IF c = Absent THEN Remove(d, l)
    ELSE [d EXCEPT ![l] = [st |-> c.st, runs |-> c.runs \cup d[l].runs]]

\* subprocess.run(["git", "clone", ...], timeout=300): the ways it can end and
\* the disk it leaves
GitRuns(d, l) ==
    IF Occupied(d, l)
    THEN { [kind |-> "error", stderr |-> {ExistsPhrase}, disk |-> d],
           [kind |-> "timeout", stderr |-> {}, disk |-> d],
           [kind |-> "exception", stderr |-> {}, disk |-> d] }
    ELSE { [kind |-> "ok", stderr |-> {}, disk |-> WriteInto(d, l, c)] : c \in PostStates }
         \cup { [kind |-> "error", stderr |-> e, disk |-> d] : e \in Stderrs \ {{ExistsPhrase}} }
         \cup { [kind |-> "timeout", stderr |-> {}, disk |-> x] : x \in {d, WriteInto(d, l, Partial)} }
         \cup { [kind |-> "exception", stderr |-> {}, disk |-> d] }

(***************************************************************************)
(* Decisions of clone_repository                                           *)
(***************************************************************************)
MaxRetries == 3
CleanupAttempts == 3

\* _check_github_connectivity
CheckGithubConnectivity(a) == a = "200"

\* mutant: every exception of the probe is answered with False
CheckRepositoryExistsStrict(a) == a = "200"

\* mutant: a 404 is not taken as an answer about the repository
CheckRepositoryExistsIgnores404(a) == a \in {"200", "http_404", "other_exception"}

\* _check_repository_exists
CheckRepositoryExists(a) ==
    CASE a = "200" -> TRUE
      [] a = "other_status" -> FALSE
      [] a \in {"http_404", "http_403", "http_other"} -> FALSE
      [] a = "url_error" -> FALSE
      [] a = "other_exception" -> TRUE

\* the git clone command of attempt n (0-based)
CloneScope(n) ==
    IF n = 0 THEN "depth1_single_branch"
    ELSE IF n = 1 THEN "single_branch"
    ELSE "full"

\* mutant: a repository that was not found is retried like any other failure
OnCloneErrorRetryAll(stderr) ==
    IF ExistsPhrase \in stderr THEN "rmtree_continue" ELSE "backoff"

\* the branch taken for a non-zero exit code
OnCloneError(stderr) ==
    IF ExistsPhrase \in stderr THEN "rmtree_continue"
    ELSE IF stderr \cap NotFoundPhrases # {} THEN "return_false"
    ELSE IF stderr \cap DeniedPhrases # {} THEN "return_false"
    ELSE "backoff"

\* mutant: the shell removal comes first
RemovalStrategyShellFirst(n) ==
    IF n = 0 THEN "shell_rm"
    ELSE IF n = 1 THEN "rmtree"
    ELSE "force_remove_directory"

\* the removal strategy of cleanup attempt n (0-based)
RemovalStrategy(n) ==
    IF n = 0 THEN "rmtree"
    ELSE IF n = 1 THEN "force_remove_directory"
    ELSE "shell_rm"

\* mutant: the .git directory is required
PostCloneChecksRequireGit(d, l, listed) ==
    Exists(d, l) /\ IsDir(d, l) /\ listed /\ NonEmpty(d, l) /\ HasGit(d, l)

\* the checks after a successful git clone; listed is FALSE when iterdir raises
PostCloneChecks(d, l, listed) ==
    Exists(d, l) /\ IsDir(d, l) /\ listed /\ NonEmpty(d, l)

(***************************************************************************)
(* Initial state: a new flow object, nothing cloned yet                    *)
(***************************************************************************)
InitDisk == [x \in Locs |-> Absent]

\* what the environment answered: the kind of answer and, for git, the
\* phrases found in stderr
Answer(k, e) == [kind |-> k, stderr |-> e]
NoAnswer == Answer("none", {})

\* an entry of the history of steps: the step and, for the validation and
\* the two probes, what it met
Step(n, a) == [name |-> n, answer |-> a]

NoOut == [stage |-> "none", valid |-> FALSE, name |-> <<>>, path |-> NoPath]

InitFlow ==
    /\ state = NoState
    /\ tools = NoTools
    /\ disk = InitDisk
    /\ entryDisk = InitDisk
    /\ entry = "none"
    /\ url = <<>>
    /\ pc = "idle"
    /\ repo_path = NoPath
    /\ attempt = 0
    /\ ret = "none"
    /\ result = "none"
    /\ steps = <<>>
    /\ last = NoAnswer
    /\ removals = <<>>
    /\ cmds = <<>>
    /\ phases = <<>>

\* AdvancedRepositoryTools.__init__: an empty cache and no error counted; no
\* tool has been called
NoResult == [op |-> "none"]

InitTools ==
    /\ tree = {}
    /\ bulk = 0
    /\ listing = <<>>
    /\ file_cache = <<>>
    /\ error_count = 0
    /\ toolOut = NoResult

\* DocumentationState as constructed: no plan, generated_docs empty
InitDocs ==
    /\ plan = <<>>
    /\ generated_docs = <<>>
    /\ docs_dir = <<>>
    /\ doc_pc = "idle"

(***************************************************************************)
(* The chat bots: sessions, messages and files                                   *)
(***************************************************************************)
\* how many inputs a session gives
MaxInputs == 2

Bots == {"llama", "openai"}
Sessions == {1, 2}

\* what a message, a recording, a file or a speech holds: the input it comes
\* from, the no-th input of session by
Input(s, k) == [by |-> s, no |-> k]
Nothing == Input(0, 0)

ChatMessage(type, content) == [type |-> type, content |-> content]

\* msgs.add_ai_message("How can I help you?")
Greeting == ChatMessage("ai", Nothing)

\* the file the recording is written to: a NamedTemporaryFile of its own for
\* every run of the llama script, one fixed name in the openai script
AudioPath(s) == IF bot = "llama" THEN <<"tmp.wav", s>> ELSE <<"temp_audio.mp3", 0>>

\* speech_file_path of text_to_speech in the openai script
SpeechPath == <<"temp_audio_play.mp3", 0>>

FilePaths == {<<"tmp.wav", s>> : s \in Sessions} \cup {<<"temp_audio.mp3", 0>>, SpeechPath}

AtRest == [pc |-> "idle", audio_bytes |-> Nothing, response |-> Nothing,
           played |-> Nothing, error |-> "none"]

InitChat ==
    /\ bot = "openai"
    /\ messages = [s \in Sessions |-> <<>>]
    /\ script = [s \in Sessions |-> AtRest]
    /\ audio_files = [f \in FilePaths |-> Nothing]
    /\ given = [s \in Sessions |-> 0]

Init == InitFlow /\ refIn = <<>> /\ refOut = NoOut /\ InitTools /\ InitDocs /\ InitChat

(***************************************************************************)
(* Entry points                                                            *)
(***************************************************************************)
\* the first lines of clone_repository: the state is created only if there
\* is none.  What is on disk from now on belongs to an earlier call.
EnterClone(e, u, st, tl) ==
    /\ entry' = e
    /\ url' = u
    /\ state' = IF st.set THEN st ELSE DocumentationState(u)
    /\ tools' = tl
    /\ disk' = Age(disk)
    /\ entryDisk' = Age(disk)
    /\ pc' = "validate"
    /\ UNCHANGED <<repo_path, attempt, ret, result, steps, last, removals, cmds, phases>>
    /\ UNCHANGED <<urlVars, toolVars, docVars, chatVars>>

\* flow.clone_repository(u) called on the flow object as it is
CloneRepositoryDirect(u) ==
    /\ pc = "idle"
    /\ EnterClone("direct", u, state, tools)

\* flow.execute_flow(u): a new state, the same flow object
ExecuteFlow(u) ==
    /\ pc = "idle"
    /\ EnterClone("execute_flow", u, DocumentationState(u), tools)

\* execute_enhanced_flow(u, ...): the pattern is matched against u as given;
\* then a new flow object with a new state
ExecuteEnhancedFlow(u) ==
    /\ pc = "idle"
    /\ IF MatchesPattern(u)
       THEN EnterClone("execute_enhanced_flow", u, DocumentationState(u), NoTools)
       ELSE /\ entry' = "execute_enhanced_flow"
            /\ url' = u
            /\ result' = "error"
            /\ pc' = "finished"
            /\ UNCHANGED <<state, tools, disk, entryDisk, repo_path, attempt, ret, steps,
                           last, removals, cmds, phases, refIn, refOut, toolVars, docVars, chatVars>>

(***************************************************************************)
(* clone_repository, step by step                                          *)
(***************************************************************************)
\* step 1: URL validation
ValidateStep ==
    /\ pc = "validate"
    /\ steps' = Append(steps, Step("validate", IF ValidateGithubUrl(url) THEN "match" ELSE "no_match"))
    /\ last' = Answer(IF ValidateGithubUrl(url) THEN "match" ELSE "no_match", {})
    /\ IF ValidateGithubUrl(url)
       THEN pc' = "connectivity" /\ ret' = ret
       ELSE pc' = "returned" /\ ret' = "false"
    /\ UNCHANGED <<state, tools, disk, entryDisk, entry, url, repo_path, attempt, result,
                   removals, cmds, phases, refIn, refOut, toolVars, docVars, chatVars>>

\* step 2: GitHub reachability probe
ConnectivityStep ==
    /\ pc = "connectivity"
    /\ \E a \in ConnectivityAnswers :
         /\ steps' = Append(steps, Step("connectivity", a))
         /\ last' = Answer(a, {})
         /\ IF CheckGithubConnectivity(a)
            THEN pc' = "exists" /\ ret' = ret
            ELSE pc' = "returned" /\ ret' = "false"
    /\ UNCHANGED <<state, tools, disk, entryDisk, entry, url, repo_path, attempt, result,
                   removals, cmds, phases, refIn, refOut, toolVars, docVars, chatVars>>

\* step 3: repository existence probe
ExistsStep ==
    /\ pc = "exists"
    /\ \E a \in ProbeAnswers :
         /\ steps' = Append(steps, Step("exists", a))
         /\ last' = Answer(a, {})
         /\ IF CheckRepositoryExists(a)
            THEN pc' = "prepare" /\ ret' = ret
            ELSE pc' = "returned" /\ ret' = "false"
    /\ UNCHANGED <<state, tools, disk, entryDisk, entry, url, repo_path, attempt, result,
                   removals, cmds, phases, refIn, refOut, toolVars, docVars, chatVars>>

\* step 4a: workdir.mkdir(exist_ok=True) and repo_path = workdir / repo_name.
\* mkdir raises when workdir is a file or when the system refuses
\* (granted = FALSE): the exception leaves clone_repository.
PrepareStep ==
    /\ pc = "prepare"
    /\ steps' = Append(steps, Step("prepare", ""))
    /\ \E granted \in BOOLEAN :
         LET made == granted /\ disk[BaseDir].st # "file"
             d1 == IF Exists(disk, BaseDir) THEN disk ELSE [disk EXCEPT ![BaseDir] = EmptyDir]
             p == RepoPath(url)
         IN  /\ last' = Answer(IF made THEN "mkdir_ok" ELSE "mkdir_raised", {})
             /\ IF made
                THEN /\ disk' = d1
                     /\ repo_path' = p
                     /\ pc' = IF Exists(d1, p) THEN "cleanup" ELSE "clone"
                     /\ ret' = ret
                ELSE /\ disk' = disk
                     /\ repo_path' = repo_path
                     /\ pc' = "returned"
                     /\ ret' = "raised"
    /\ UNCHANGED <<state, tools, entryDisk, entry, url, attempt, result, removals, cmds,
                   phases, refIn, refOut, toolVars, docVars, chatVars>>

\* step 4b: one pass of the removal loop.  The strategy removes the
\* directory, leaves it in place, or raises.
CleanupAttempt ==
    /\ pc = "cleanup"
    /\ attempt < CleanupAttempts
    /\ steps' = IF attempt = 0 THEN Append(steps, Step("cleanup", "")) ELSE steps
    /\ removals' = Append(removals, RemovalStrategy(attempt))
    /\ \E out \in {"removed", "still_there", "raised"} :
         LET d1 == IF out = "removed" THEN Remove(disk, repo_path) ELSE disk
         IN  /\ last' = Answer(out, {})
             /\ disk' = d1
             /\ IF ~Exists(d1, repo_path)
                THEN pc' = "clone" /\ attempt' = 0
                ELSE IF attempt + 1 < CleanupAttempts
                THEN pc' = "cleanup" /\ attempt' = attempt + 1
                ELSE pc' = "rename" /\ attempt' = 0
    /\ UNCHANGED <<state, tools, entryDisk, entry, url, repo_path, ret, result, cmds,
                   phases, refIn, refOut, toolVars, docVars, chatVars>>

\* mutant: a failed rename is ignored
AfterRenameLenient(moved) == "clone"

\* where clone_repository goes after repo_path.rename(backup_path)
AfterRename(moved) == IF moved THEN "clone" ELSE "returned"

\* step 4c: the directory is still there after the loop: rename it aside
RenameAside ==
    /\ pc = "rename"
    /\ removals' = Append(removals, "rename")
    /\ \E moved \in BOOLEAN :
         /\ last' = Answer(IF moved THEN "renamed" ELSE "rename_raised", {})
         /\ disk' = IF moved THEN Remove(disk, repo_path) ELSE disk
         /\ pc' = AfterRename(moved)
         /\ ret' = IF AfterRename(moved) = "returned" THEN "false" ELSE ret
    /\ UNCHANGED <<state, tools, entryDisk, entry, url, repo_path, attempt, result, steps,
                   cmds, phases, refIn, refOut, toolVars, docVars, chatVars>>

\* mutant: a timeout ends the call at once
AfterGitTimeoutFatal(g, n) ==
    CASE g.kind = "ok" -> "break"
      [] g.kind = "error" -> OnCloneError(g.stderr)
      [] g.kind = "timeout" -> "return_false"
      [] g.kind = "exception" -> IF n < MaxRetries - 1 THEN "continue" ELSE "return_false"

\* mutant: the loop goes on after an exit code 0
AfterGitNoBreak(g, n) ==
    CASE g.kind = "ok" -> IF n < MaxRetries - 1 THEN "continue" ELSE "break"
      [] g.kind = "error" -> OnCloneError(g.stderr)
      [] g.kind \in {"timeout", "exception"} ->
             IF n < MaxRetries - 1 THEN "continue" ELSE "return_false"

\* the branch of the loop body taken after git ended, in attempt n (0-based)
AfterGit(g, n) ==
    CASE g.kind = "ok" -> "break"
      [] g.kind = "error" -> OnCloneError(g.stderr)
      [] g.kind \in {"timeout", "exception"} ->
             IF n < MaxRetries - 1 THEN "continue" ELSE "return_false"

\* step 5: one pass of the clone loop
CloneAttempt ==
    /\ pc = "clone"
    /\ attempt < MaxRetries
    /\ steps' = IF attempt = 0 THEN Append(steps, Step("clone", "")) ELSE steps
    /\ \E g \in GitRuns(disk, repo_path) :
         LET branch == AfterGit(g, attempt)
         IN  /\ last' = Answer(g.kind, g.stderr)
             /\ cmds' = Append(cmds, [scope |-> CloneScope(attempt),
                                      ok |-> g.kind = "ok",
                                      found |-> Exists(disk, repo_path),
                                      onto |-> RunsAt(disk, repo_path)])
             /\ \E wiped \in BOOLEAN :
                  \* shutil.rmtree(repo_path, ignore_errors=True)
                  /\ wiped => branch = "rmtree_continue" /\ Exists(g.disk, repo_path)
                  /\ disk' = IF wiped THEN Remove(g.disk, repo_path) ELSE g.disk
             /\ CASE branch = "break" ->
                       pc' = "postcheck" /\ ret' = ret /\ attempt' = attempt
                  [] branch = "return_false" ->
                       pc' = "returned" /\ ret' = "false" /\ attempt' = attempt
                  [] branch \in {"rmtree_continue", "backoff", "continue"} ->
                       IF attempt + 1 < MaxRetries
                       THEN pc' = "clone" /\ ret' = ret /\ attempt' = attempt + 1
                       ELSE pc' = "returned" /\ ret' = "false" /\ attempt' = attempt
    /\ UNCHANGED <<state, tools, entryDisk, entry, url, repo_path, result, removals,
                   phases, refIn, refOut, toolVars, docVars, chatVars>>

\* step 6: the checks after the clone, then the state update and the tools
PostCloneStep ==
    /\ pc = "postcheck"
    /\ steps' = Append(steps, Step("postcheck", ""))
    /\ \E listed \in BOOLEAN :
         /\ last' = Answer(IF listed THEN "listed" ELSE "iterdir_raised", {})
         /\ IF PostCloneChecks(disk, repo_path, listed)
            THEN /\ state' = [state EXCEPT !.repo_path = repo_path,
                                           !.current_phase = "cloned"]
                 /\ tools' = AdvancedRepositoryTools(repo_path)
                 /\ ret' = "true"
            ELSE /\ UNCHANGED <<state, tools>>
                 /\ ret' = "false"
    /\ pc' = "returned"
    /\ UNCHANGED <<disk, entryDisk, entry, url, repo_path, attempt, result, removals,
                   cmds, phases, refIn, refOut, toolVars, docVars, chatVars>>

(***************************************************************************)
(* After clone_repository: the callers                                     *)
(***************************************************************************)
\* a direct caller gets the value, or the exception
DirectReturn ==
    /\ pc = "returned"
    /\ entry = "direct"
    /\ pc' = "finished"
    /\ result' = ret
    /\ UNCHANGED <<state, tools, disk, entryDisk, entry, url, repo_path, attempt, ret,
                   steps, last, removals, cmds, phases, refIn, refOut, toolVars, docVars, chatVars>>

\* mutant: the planning phase is started whatever the clone returned
NextPhaseAfterCloneAlways(r) == "planning"

\* execute_flow and execute_enhanced_flow: go on only after a clone that
\* returned True; an exception is caught by their except clause
NextPhaseAfterClone(r) == IF r = "true" THEN "planning" ELSE "finished"

\* execute_flow, after the clone
ExecuteFlowAfterClone ==
    /\ pc = "returned"
    /\ entry = "execute_flow"
    /\ pc' = NextPhaseAfterClone(ret)
    /\ result' = IF ret = "true" THEN result ELSE "error"
    /\ UNCHANGED <<state, tools, disk, entryDisk, entry, url, repo_path, attempt, ret,
                   steps, last, removals, cmds, phases, refIn, refOut, toolVars, docVars, chatVars>>

\* execute_enhanced_flow, after the clone
EnhancedFlowAfterClone ==
    /\ pc = "returned"
    /\ entry = "execute_enhanced_flow"
    /\ pc' = NextPhaseAfterClone(ret)
    /\ result' = IF ret = "true" THEN result ELSE "error"
    /\ UNCHANGED <<state, tools, disk, entryDisk, entry, url, repo_path, attempt, ret,
                   steps, last, removals, cmds, phases, refIn, refOut, toolVars, docVars, chatVars>>

\* enhanced_planning_phase: returns True on every path; current_phase becomes
\* "planned" only when a plan could be extracted from the chat
PlanningPhase ==
    /\ pc = "planning"
    /\ phases' = Append(phases, "planning")
    /\ \E extracted \in BOOLEAN :
         state' = IF extracted THEN [state EXCEPT !.current_phase = "planned"] ELSE state
    /\ pc' = "documentation"
    /\ UNCHANGED <<tools, disk, entryDisk, entry, url, repo_path, attempt, ret, result,
                   steps, last, removals, cmds, refIn, refOut, toolVars, docVars, chatVars>>

\* enhanced_documentation_phase, then the result of the run
DocumentationPhase ==
    /\ pc = "documentation"
    /\ phases' = Append(phases, "documentation")
    /\ \E created \in BOOLEAN :
         /\ state' = IF created THEN [state EXCEPT !.current_phase = "completed"] ELSE state
         /\ result' = IF created THEN "success"
                      ELSE IF entry = "execute_flow" THEN "error" ELSE "partial"
    /\ pc' = "finished"
    /\ UNCHANGED <<tools, disk, entryDisk, entry, url, repo_path, attempt, ret, steps,
                   last, removals, cmds, refIn, refOut, toolVars, docVars, chatVars>>

\* the run is over: its local variables and its history are gone, the flow
\* object and the disk stay
Finish ==
    /\ pc = "finished"
    /\ pc' = "idle"
    /\ entry' = "none"
    /\ url' = <<>>
    /\ repo_path' = NoPath
    /\ attempt' = 0
    /\ ret' = "none"
    /\ result' = "none"
    /\ steps' = <<>>
    /\ last' = NoAnswer
    /\ removals' = <<>>
    /\ cmds' = <<>>
    /\ phases' = <<>>
    /\ entryDisk' = disk
    /\ UNCHANGED <<state, tools, disk, refIn, refOut, toolVars, docVars, chatVars>>

Next ==
    \/ \E u \in FlowUrls : CloneRepositoryDirect(u)
    \/ \E u \in FlowUrls : ExecuteFlow(u)
    \/ \E u \in FlowUrls : ExecuteEnhancedFlow(u)
    \/ ValidateStep
    \/ ConnectivityStep
    \/ ExistsStep
    \/ PrepareStep
    \/ CleanupAttempt
    \/ RenameAside
    \/ CloneAttempt
    \/ PostCloneStep
    \/ DirectReturn
    \/ ExecuteFlowAfterClone
    \/ EnhancedFlowAfterClone
    \/ PlanningPhase
    \/ DocumentationPhase
    \/ Finish

Spec == Init /\ [][Next]_vars

(***************************************************************************)
(* SpecUrl: the string functions applied to every reference of a bounded   *)
(* family                                                                  *)
(***************************************************************************)
\* the characters of the text after https://github.com/o/
RestChars == {"r", ".", "g", "i", "t", "/"}
Rests == UNION {[1..n -> RestChars] : n \in 0..MaxNameLen}

\* what surrounds that text: <<before, after>>
Frames ==
    { <<Ref(<<>>), <<>>>>,                                            \* as is
      << <<" ">> \o Ref(<<>>), <<>>>>,                                \* a blank in front
      <<Ref(<<>>), <<" ">>>>,                                         \* a blank behind
      <<Ref(<<>>), <<"\n">>>>,                                        \* a newline behind
      << <<"h","t","t","p",":","/","/">> \o Drop(Ref(<<>>), 8), <<>>>>,  \* http://
      <<GithubPrefix \o <<"/">>, <<>>>> }                             \* no owner

UrlInputs == {f[1] \o r \o f[2] : f \in Frames, r \in Rests}

InitUrl ==
    /\ InitFlow
    /\ refIn \in UrlInputs
    /\ refOut = NoOut
    /\ InitTools
    /\ InitDocs
    /\ InitChat

\* clone_repository, step 1, on refIn
ValidateRef ==
    /\ refOut.stage = "none"
    /\ refOut' = [refOut EXCEPT !.stage = "validated", !.valid = ValidateGithubUrl(refIn)]
    /\ UNCHANGED <<refIn, flowVars, toolVars, docVars, chatVars>>

\* clone_repository, the target path of a reference that passed
DeriveTarget ==
    /\ refOut.stage = "validated"
    /\ refOut.valid
    /\ refOut' = [refOut EXCEPT !.stage = "derived", !.name = RepoName(refIn),
                                !.path = RepoPath(refIn)]
    /\ UNCHANGED <<refIn, flowVars, toolVars, docVars, chatVars>>

NextUrl == ValidateRef \/ DeriveTarget

SpecUrl == InitUrl /\ [][NextUrl]_vars

(***************************************************************************)
(* SpecRead: file_read, the file cache and the error counter of one tools  *)
(* object                                                                  *)
(***************************************************************************)
\* the paths a caller can ask for, and how high error_count is followed
MaxPaths == 32
MaxErrors == 2

CacheLimit == 30
MaxReadSize == 300 * 1024

Paths == 1..MaxPaths
\* a file that changes between two calls; every other path is a text file
\* that stays as it is.  The code uses a path only as a key of the cache, so
\* the stable paths are numbered in the order in which they are first asked
\* for: a call names the volatile path, a path asked before or the next one.
Volatile == {1}
Contents == {"a", "b"}

\* what the file system shows for a path during one call of file_read
View(ex, isf, st, sz, rd, nul, txt) ==
    [exists |-> ex, is_file |-> isf, stat |-> st, size |-> sz, read |-> rd, nul |-> nul,
     text |-> txt]

TextView(enc, txt) == View("yes", TRUE, "ok", 100, enc, FALSE, txt)

VolatileViews ==
    { View("PermissionError", FALSE, "none", 0, "none", FALSE, "none"), \* exists() raises
      View("no", FALSE, "none", 0, "none", FALSE, "none"),              \* no such path
      View("yes", FALSE, "none", 0, "none", FALSE, "none"),             \* a directory
      View("yes", TRUE, "OSError", 0, "none", FALSE, "none"),           \* stat() raises
      View("yes", TRUE, "ok", MaxReadSize + 1, "none", FALSE, "none"),  \* above the limit
      View("yes", TRUE, "ok", 0, "none", FALSE, "none"),                \* empty
      View("yes", TRUE, "ok", 100, "PermissionError", FALSE, "none"),   \* read_text raises
      View("yes", TRUE, "ok", 100, "utf-8", TRUE, "a"),                 \* a NUL in front
      View("yes", TRUE, "ok", MaxReadSize, "utf-8", FALSE, "a") }       \* at the limit
    \cup {TextView(enc, txt) : enc \in {"utf-8", "latin-1"}, txt \in Contents}

ViewsOf(p) == IF p \in Volatile THEN VolatileViews ELSE {TextView("utf-8", "a")}

\* the failure of the file that a call meets, as the exception the file
\* system raised or the absence it reported
FailureOf(v) ==
    IF v.exists = "PermissionError" THEN "PermissionError"
    ELSE IF v.exists = "no" THEN "FileNotFound"
    ELSE IF ~v.is_file THEN "none"
    ELSE IF v.stat = "OSError" THEN "OSError"
    ELSE IF v.size > MaxReadSize \/ v.size = 0 THEN "none"
    ELSE IF v.read = "PermissionError" THEN "PermissionError"
    ELSE "none"

Message(k, p) == [kind |-> k, path |-> p, size |-> 0, encoding |-> "none", text |-> "none"]

\* what operation() of a tool does: it returns a value or raises
Returns(v) == [raised |-> "none", value |-> v]
Raises(e) == [raised |-> e, value |-> "none"]

\* the body of file_read, _operation, up to the cache
FileReadOperation(p, v, cache) ==
    IF v.exists = "PermissionError" THEN Raises("PermissionError")
    ELSE IF v.exists = "no" THEN Returns(Message("not_found", p))
    ELSE IF ~v.is_file THEN Returns(Message("not_a_file", p))
    ELSE IF p \in DOMAIN cache THEN Returns(cache[p])
    ELSE IF v.stat = "OSError" THEN Returns(Message("access_error", p))
    ELSE IF v.size > MaxReadSize THEN Returns(Message("too_large", p))
    ELSE IF v.size = 0 THEN Returns(Message("empty", p))
    ELSE IF v.read \notin {"utf-8", "latin-1"} THEN Returns(Message("unreadable", p))
    ELSE IF v.nul THEN Returns(Message("binary", p))
    ELSE Returns([kind |-> "analysis", path |-> p, size |-> v.size, encoding |-> v.read,
                  text |-> v.text])

\* the lines "Cache resultado (limitado)": which value the cache takes
StoreEvicting(cache, p, run) ==
    IF run.raised = "none" /\ run.value.kind = "analysis" /\ p \notin DOMAIN cache
    THEN IF Cardinality(DOMAIN cache) < CacheLimit
         THEN (p :> run.value) @@ cache
         ELSE LET gone == CHOOSE q \in DOMAIN cache : TRUE
              IN  [q \in (DOMAIN cache \ {gone}) \cup {p} |->
                      IF q = p THEN run.value ELSE cache[q]]
    ELSE cache

Store(cache, p, run) ==
    IF /\ run.raised = "none"
       /\ run.value.kind = "analysis"
       /\ p \notin DOMAIN cache
       /\ Cardinality(DOMAIN cache) < CacheLimit
    THEN (p :> run.value) @@ cache
    ELSE cache

\* _safe_execute: the value of operation(), or a message and one more error
SafeExecute(func_name, run, errs) ==
    IF run.raised = "none"
    THEN [result |-> run.value, error_count |-> errs]
    ELSE [result |-> [kind |-> "error", in |-> func_name, raised |-> run.raised],
          error_count |-> errs + 1]

\* the caller has the value the tool returned; the tools object is ready for
\* the next call
Reply ==
    /\ toolOut.op # "none"
    /\ toolOut' = NoResult
    /\ UNCHANGED <<tree, bulk, listing, file_cache, error_count, flowVars, urlVars, docVars, chatVars>>

\* self.repo_path as the segments of an absolute path
RepoRoot == <<"w", "r">>

\* how the caller spells the paths it asks for: a path is a sequence of
\* segments, and "/" in front makes it absolute
Spellings ==
    << <<"f">>, <<"..", "x">>, <<"/", "x">>, <<"d", "..", "g">> >>
SpellingOf(p) == Spellings[((p - 1) % Len(Spellings)) + 1]

\* self.repo_path / file_path: an absolute operand replaces the left side,
\* any other is appended as it is
TargetFile(file_path) ==
    IF file_path # <<>> /\ Head(file_path) = "/" THEN Tail(file_path)
    ELSE RepoRoot \o file_path

\* the file the operating system opens for a path: ".." leaves a directory
RECURSIVE Resolved(_, _)
Resolved(path, at) ==
    IF path = <<>> THEN at
    ELSE IF Head(path) = ".."
    THEN Resolved(Tail(path), IF at = <<>> THEN <<>> ELSE SubSeq(at, 1, Len(at) - 1))
    ELSE Resolved(Tail(path), Append(at, Head(path)))

\* tools.file_read(p)
FileRead(p) ==
    /\ toolOut.op = "none"
    /\ \/ p \in Volatile
       \/ p <= Cardinality(Volatile \cup DOMAIN file_cache) + 1
    /\ \E v \in ViewsOf(p) :
         LET run == FileReadOperation(p, v, file_cache)
             safe == SafeExecute("file_read", run, error_count)
         IN  /\ safe.error_count <= MaxErrors
             /\ file_cache' = Store(file_cache, p, run)
             /\ error_count' = safe.error_count
             /\ toolOut' = [op |-> "file_read", path |-> p, failure |-> FailureOf(v),
                            target |-> TargetFile(SpellingOf(p)),
                            result |-> safe.result]
    /\ UNCHANGED <<tree, bulk, listing, flowVars, urlVars, docVars, chatVars>>

NextRead == (\E p \in Paths : FileRead(p)) \/ Reply

SpecRead == Init /\ [][NextRead]_vars

(***************************************************************************)
(* SpecDir: directory_read on one directory                                *)
(***************************************************************************)
\* how many children a category has beyond what is displayed of it
MaxExtra == 1

ItemLimit == 150
DirsShown == 15
CodeShown == 20
ConfigShown == 10
DocShown == 10
OtherShown == 15

SummaryCodeExts ==
    {".py", ".js", ".ts", ".java", ".cpp", ".c", ".h", ".go", ".rs", ".php", ".rb",
     ".scala", ".kt"}
SummaryConfigExts == {".json", ".yaml", ".yml", ".toml", ".ini", ".cfg", ".conf"}
SummaryDocExts == {".md", ".txt", ".rst", ".adoc"}
SummaryDocNames == {"README", "LICENSE", "CHANGELOG"}

\* a child of the directory, by what directory_read asks of it: whether its
\* name starts with a dot, is_dir(), whether stat() answers, suffix.lower()
\* and name.upper()
Child(dot, isdir, st, ext, upper) ==
    [dot |-> dot, is_dir |-> isdir, stat |-> st, ext |-> ext, upper |-> upper]

\* the kinds of children a directory is filled with
Kind ==
    [hidden |-> Child(TRUE, FALSE, TRUE, "", ".ENV"),
     subdir |-> Child(FALSE, TRUE, TRUE, "", "SRC"),
     broken |-> Child(FALSE, FALSE, FALSE, ".py", "GONE.PY"),
     code   |-> Child(FALSE, FALSE, TRUE, ".py", "A.PY"),
     config |-> Child(FALSE, FALSE, TRUE, ".json", "A.JSON"),
     doc    |-> Child(FALSE, FALSE, TRUE, "", "LICENSE"),
     other  |-> Child(FALSE, FALSE, TRUE, ".bin", "A.BIN")]

ChildKinds == DOMAIN Kind

\* the body of the loop over items[:150]: the list a child is appended to
ListOf(c) ==
    IF c.dot THEN "none"
    ELSE IF c.is_dir THEN "dirs"
    ELSE IF ~c.stat THEN "none"
    ELSE IF c.ext \in SummaryCodeExts THEN "code_files"
    ELSE IF c.ext \in SummaryConfigExts THEN "config_files"
    ELSE IF c.ext \in SummaryDocExts \/ c.upper \in SummaryDocNames THEN "doc_files"
    ELSE "other_files"

Lists == {"dirs", "code_files", "config_files", "doc_files", "other_files"}

Shown(l) ==
    CASE l = "dirs" -> DirsShown
      [] l = "code_files" -> CodeShown
      [] l = "config_files" -> ConfigShown
      [] l = "doc_files" -> DocShown
      [] l = "other_files" -> OtherShown

Min(a, b) == IF a <= b THEN a ELSE b

RECURSIVE Total(_, _)
Total(bag, kinds) ==
    IF kinds = {} THEN 0
    ELSE LET k == CHOOSE x \in kinds : TRUE IN bag[k] + Total(bag, kinds \ {k})

\* the directories directory_read is tried on: every category empty, filled
\* up to what is displayed, or beyond it ...
CountsOf(k) ==
    IF ListOf(Kind[k]) = "none" THEN 0..MaxExtra
    ELSE {0} \cup {Shown(ListOf(Kind[k])) + i : i \in 0..MaxExtra}

\* ... and directories with more than 150 children
Crowded ==
    {b \in [ChildKinds -> {0, 1, ItemLimit}] :
        /\ b.other = ItemLimit
        /\ \A c \in ChildKinds \ {"other"} : b[c] <= 1
        /\ Total(b, ChildKinds) <= ItemLimit + MaxExtra + 1}

Listings ==
    [hidden : CountsOf("hidden"), subdir : CountsOf("subdir"), broken : CountsOf("broken"),
     code : CountsOf("code"), config : CountsOf("config"), doc : CountsOf("doc"),
     other : CountsOf("other")]
    \cup Crowded

\* items[:150]: the children left after the slice, in every order iterdir()
\* can enumerate them
RECURSIVE Slices(_, _)
Slices(bag, beyond) ==
    IF beyond <= 0 THEN {bag}
    ELSE UNION {Slices([bag EXCEPT ![c] = @ - 1], beyond - 1) :
                    c \in {x \in ChildKinds : bag[x] > 0}}

\* what the directory is when directory_read looks at it
Targets == {"PermissionError", "missing", "file", "unlistable", "dir"}

Entries(seen, l) == Total(seen, {c \in ChildKinds : ListOf(Kind[c]) = l})

\* the lines after the loop: what is displayed of every list, and the
\* "... e mais N itens" line (0: no such line)
Remainder(bag, seen) ==
    LET total_shown == Total([l \in Lists |-> Entries(seen, l)], Lists)
        items == Total(bag, ChildKinds)
    IN  IF items > total_shown THEN items - total_shown ELSE 0

\* the body of directory_read, _operation
DirectoryReadOperation(target, bag, seen) ==
    IF target = "PermissionError" THEN Raises("PermissionError")
    ELSE IF target = "missing" THEN Returns([kind |-> "not_found"])
    ELSE IF target = "file" THEN Returns([kind |-> "not_a_directory"])
    ELSE IF target = "unlistable" THEN Returns([kind |-> "no_permission"])
    ELSE IF Total(bag, ChildKinds) = 0 THEN Returns([kind |-> "empty"])
    ELSE Returns([kind |-> "listing",
                  shown |-> [l \in Lists |-> Min(Entries(seen, l), Shown(l))],
                  remainder |-> Remainder(bag, seen)])

\* tools.directory_read(path)
DirectoryRead ==
    /\ toolOut.op = "none"
    /\ \E seen \in Slices(listing, Total(listing, ChildKinds) - ItemLimit) :
      \E target \in Targets :
         LET run == DirectoryReadOperation(target, listing, seen)
             safe == SafeExecute("directory_read", run, error_count)
         IN  /\ safe.error_count <= MaxErrors
             /\ error_count' = safe.error_count
             /\ toolOut' = [op |-> "directory_read", target |-> target,
                            result |-> safe.result]
             /\ UNCHANGED <<tree, bulk, listing, file_cache, flowVars, urlVars, docVars, chatVars>>

InitDir ==
    /\ InitFlow
    /\ refIn = <<>>
    /\ refOut = NoOut
    /\ InitDocs
    /\ InitChat
    /\ tree = {}
    /\ bulk = 0
    /\ listing \in Listings
    /\ file_cache = <<>>
    /\ error_count = 0
    /\ toolOut = NoResult

NextDir == DirectoryRead \/ Reply

SpecDir == InitDir /\ [][NextDir]_vars

(***************************************************************************)
(* SpecWalk: the three tools that walk the tree under repo_path            *)
(***************************************************************************)
\* how many files the tree has, and the values of max_files
MaxFiles == 4
MaxN == 2
MaxBulkFiles == 2

\* str.lower()
LowerOf ==
    [A |-> "a", B |-> "b", C |-> "c", D |-> "d", E |-> "e", F |-> "f", G |-> "g",
     H |-> "h", I |-> "i", J |-> "j", K |-> "k", L |-> "l", M |-> "m", N |-> "n",
     O |-> "o", P |-> "p", Q |-> "q", R |-> "r", S |-> "s", T |-> "t", U |-> "u",
     V |-> "v", W |-> "w", X |-> "x", Y |-> "y", Z |-> "z"]
LowerChar(c) == IF c \in DOMAIN LowerOf THEN LowerOf[c] ELSE c
RECURSIVE Lower(_)
Lower(s) == IF s = <<>> THEN <<>> ELSE <<LowerChar(Head(s))>> \o Lower(Tail(s))

\* p in s
Contains(s, p) ==
    \E i \in 0..(Len(s) - Len(p)) : SubSeq(s, i + 1, i + Len(p)) = p

EndsWith(s, p) == Len(s) >= Len(p) /\ SubSeq(s, Len(s) - Len(p) + 1, Len(s)) = p

\* Path(name).suffix: from the last dot on, unless that dot is the first or
\* the last character of the name
Suffix(name) ==
    LET dots == {i \in DOMAIN name : name[i] = "."}
    IN  IF dots = {} THEN <<>>
        ELSE LET d == CHOOSE i \in dots : \A j \in dots : j <= i
             IN  IF d = 1 \/ d = Len(name) THEN <<>> ELSE SubSeq(name, d, Len(name))

\* str(relative_dir): the components joined by "/", "." for the root
RECURSIVE Join(_)
Join(parts) ==
    IF parts = <<>> THEN <<>>
    ELSE IF Len(parts) = 1 THEN parts[1]
    ELSE parts[1] \o <<"/">> \o Join(Tail(parts))

DirString(parts) == IF parts = <<>> THEN <<".">> ELSE Join(parts)

\* key_patterns of find_key_files
KeyPatterns ==
    <<
    [category |-> "entry_points", patterns |-> <<
        <<"m", "a", "i", "n", ".", "p", "y">>,
        <<"i", "n", "d", "e", "x", ".", "j", "s">>, <<"a", "p", "p", ".", "p", "y">>,
        <<"s", "e", "r", "v", "e", "r", ".", "p", "y">>,
        <<"m", "a", "i", "n", ".", "g", "o">>,
        <<"i", "n", "d", "e", "x", ".", "h", "t", "m", "l">>,
        <<"A", "p", "p", ".", "j", "s">>,
        <<"_", "_", "i", "n", "i", "t", "_", "_", ".", "p", "y">>,
        <<"m", "a", "i", "n", ".", "j", "a", "v", "a">>,
        <<"i", "n", "d", "e", "x", ".", "p", "h", "p">>>>],
    [category |-> "project_config", patterns |-> <<
        <<"p", "a", "c", "k", "a", "g", "e", ".", "j", "s", "o", "n">>,
        <<"r", "e", "q", "u", "i", "r", "e", "m", "e", "n", "t", "s", ".", "t", "x", "t">>,
        <<"p", "o", "m", ".", "x", "m", "l">>,
        <<"C", "a", "r", "g", "o", ".", "t", "o", "m", "l">>,
        <<"g", "o", ".", "m", "o", "d">>, <<"s", "e", "t", "u", "p", ".", "p", "y">>,
        <<"p", "y", "p", "r", "o", "j", "e", "c", "t", ".", "t", "o", "m", "l">>,
        <<"c", "o", "m", "p", "o", "s", "e", "r", ".", "j", "s", "o", "n">>,
        <<"b", "u", "i", "l", "d", ".", "g", "r", "a", "d", "l", "e">>>>],
    [category |-> "documentation", patterns |-> <<
        <<"R", "E", "A", "D", "M", "E", ".", "m", "d">>,
        <<"R", "E", "A", "D", "M", "E", ".", "r", "s", "t">>,
        <<"R", "E", "A", "D", "M", "E", ".", "t", "x", "t">>,
        <<"C", "H", "A", "N", "G", "E", "L", "O", "G", ".", "m", "d">>,
        <<"L", "I", "C", "E", "N", "S", "E">>,
        <<"C", "O", "N", "T", "R", "I", "B", "U", "T", "I", "N", "G", ".", "m", "d">>,
        <<"d", "o", "c", "s", "/">>,
        <<"I", "N", "S", "T", "A", "L", "L", ".", "m", "d">>>>],
    [category |-> "build_deploy", patterns |-> <<
        <<"M", "a", "k", "e", "f", "i", "l", "e">>,
        <<"D", "o", "c", "k", "e", "r", "f", "i", "l", "e">>,
        <<"d", "o", "c", "k", "e", "r", "-", "c", "o", "m", "p", "o", "s", "e", ".", "y", "m", "l">>,
        <<".", "g", "i", "t", "h", "u", "b", "/", "w", "o", "r", "k", "f", "l", "o", "w", "s", "/">>,
        <<"J", "e", "n", "k", "i", "n", "s", "f", "i", "l", "e">>,
        <<"b", "u", "i", "l", "d", ".", "g", "r", "a", "d", "l", "e">>,
        <<"w", "e", "b", "p", "a", "c", "k", ".", "c", "o", "n", "f", "i", "g", ".", "j", "s">>>>],
    [category |-> "environment", patterns |-> <<
        <<"c", "o", "n", "f", "i", "g", ".", "p", "y">>,
        <<"s", "e", "t", "t", "i", "n", "g", "s", ".", "p", "y">>,
        <<".", "e", "n", "v">>,
        <<"c", "o", "n", "f", "i", "g", ".", "j", "s", "o", "n">>,
        <<"w", "e", "b", "p", "a", "c", "k", ".", "c", "o", "n", "f", "i", "g", ".", "j", "s">>,
        <<"t", "s", "c", "o", "n", "f", "i", "g", ".", "j", "s", "o", "n">>,
        <<".", "e", "s", "l", "i", "n", "t", "r", "c">>,
        <<"p", "y", "t", "e", "s", "t", ".", "i", "n", "i">>>>],
    [category |-> "tests", patterns |-> <<
        <<"t", "e", "s", "t", "_">>, <<"_", "t", "e", "s", "t", ".", "p", "y">>,
        <<".", "t", "e", "s", "t", ".", "j", "s">>,
        <<"s", "p", "e", "c", ".", "j", "s">>, <<"t", "e", "s", "t", "s", "/">>,
        <<"t", "e", "s", "t", "/">>,
        <<"p", "y", "t", "e", "s", "t", ".", "i", "n", "i">>,
        <<"j", "e", "s", "t", ".", "c", "o", "n", "f", "i", "g", ".", "j", "s">>>>],
    [category |-> "frontend", patterns |-> <<
        <<"s", "t", "y", "l", "e", ".", "c", "s", "s">>,
        <<"m", "a", "i", "n", ".", "c", "s", "s">>,
        <<"a", "p", "p", ".", "c", "s", "s">>,
        <<"i", "n", "d", "e", "x", ".", "h", "t", "m", "l">>,
        <<"t", "e", "m", "p", "l", "a", "t", "e">>,
        <<"s", "t", "a", "t", "i", "c", "/">>, <<"p", "u", "b", "l", "i", "c", "/">>,
        <<"a", "s", "s", "e", "t", "s", "/">>>>]
    >>

\* important_patterns of detailed_file_analysis
ImportantPatterns ==
    <<
    <<"m", "a", "i", "n", ".", "p", "y">>, <<"a", "p", "p", ".", "p", "y">>,
    <<"s", "e", "r", "v", "e", "r", ".", "p", "y">>,
    <<"i", "n", "d", "e", "x", ".", "j", "s">>, <<"m", "a", "i", "n", ".", "g", "o">>,
    <<"R", "E", "A", "D", "M", "E", ".", "m", "d">>,
    <<"s", "e", "t", "u", "p", ".", "p", "y">>,
    <<"p", "a", "c", "k", "a", "g", "e", ".", "j", "s", "o", "n">>,
    <<"r", "e", "q", "u", "i", "r", "e", "m", "e", "n", "t", "s", ".", "t", "x", "t">>>>

\* the names and the name parts that make a file important for
\* analyze_code_structure
ImportantNames ==
    {
    <<"m", "a", "i", "n", ".", "p", "y">>, <<"i", "n", "d", "e", "x", ".", "j", "s">>,
    <<"a", "p", "p", ".", "p", "y">>, <<"s", "e", "r", "v", "e", "r", ".", "p", "y">>,
    <<"m", "a", "i", "n", ".", "g", "o">>}
ImportantParts == {<<"m", "a", "i", "n">>, <<"a", "p", "p">>}

\* the extensions analyze_code_structure reads
ScanCodeExts ==
    {
    <<".", "p", "y">>, <<".", "j", "s">>, <<".", "t", "s">>,
    <<".", "j", "a", "v", "a">>, <<".", "c", "p", "p">>, <<".", "c">>, <<".", "h">>,
    <<".", "g", "o">>, <<".", "r", "s">>, <<".", "p", "h", "p">>, <<".", "r", "b">>}

\* the extensions detailed_file_analysis ranks
RankCodeExts ==
    {<<".", "p", "y">>, <<".", "j", "s">>, <<".", "t", "s">>, <<".", "j", "a", "v", "a">>, <<".", "g", "o">>}

\* the directories each walk does not descend into, besides those whose
\* name starts with a dot
ScanPruned ==
    {
    <<"n", "o", "d", "e", "_", "m", "o", "d", "u", "l", "e", "s">>,
    <<"_", "_", "p", "y", "c", "a", "c", "h", "e", "_", "_">>,
    <<"t", "a", "r", "g", "e", "t">>, <<"b", "u", "i", "l", "d">>,
    <<"d", "i", "s", "t">>, <<"v", "e", "n", "d", "o", "r">>}
KeyPruned ==
    {
    <<"n", "o", "d", "e", "_", "m", "o", "d", "u", "l", "e", "s">>,
    <<"_", "_", "p", "y", "c", "a", "c", "h", "e", "_", "_">>,
    <<"t", "a", "r", "g", "e", "t">>, <<"b", "u", "i", "l", "d">>,
    <<"d", "i", "s", "t">>}
RankPruned ==
    {
    <<"n", "o", "d", "e", "_", "m", "o", "d", "u", "l", "e", "s">>,
    <<"_", "_", "p", "y", "c", "a", "c", "h", "e", "_", "_">>,
    <<"t", "a", "r", "g", "e", "t">>}

\* a file: its name, the components of its directory relative to repo_path,
\* its size in bytes and its number of non-blank lines.  AllFiles are the
\* files a tree is made of; the tree and the results name a file by its
\* place in AllFiles.
File(name, dir, size, lines) == [name |-> name, dir |-> dir, size |-> size, lines |-> lines]

RootDir == <<>>
TestsDir == <<<<"t", "e", "s", "t", "s">>>>
BuildDir == <<<<"b", "u", "i", "l", "d">>>>

AllFiles ==
    <<
      File(<<"m", "a", "i", "n", ".", "p", "y">>, RootDir, 500, 10),
      File(<<"R", "E", "A", "D", "M", "E", ".", "m", "d">>, RootDir, 2000, 40),
      File(<<"u", "t", "i", "l", ".", "p", "y">>, RootDir, 2000, 80),
      File(<<"l", "i", "b", ".", "r", "s">>, RootDir, 3000, 90),
      File(<<"t", "i", "n", "y", ".", "p", "y">>, RootDir, 1000, 30),
      File(<<"b", "i", "g", ".", "p", "y">>, RootDir, 600 * 1024, 9000),
      File(<<"t", "e", "s", "t", "_", "a", ".", "t", "e", "s", "t", ".", "j", "s">>, TestsDir, 1100, 20),
      File(<<"t", "e", "s", "t", "_", "b", ".", "t", "e", "s", "t", ".", "j", "s">>, TestsDir, 1200, 20),
      File(<<"t", "e", "s", "t", "_", "c", ".", "t", "e", "s", "t", ".", "j", "s">>, TestsDir, 1300, 20),
      File(<<"t", "e", "s", "t", "_", "d", ".", "t", "e", "s", "t", ".", "j", "s">>, TestsDir, 1400, 20),
      File(<<".", "e", "n", "v">>, RootDir, 10, 1),
      File(<<"a", "p", "p", ".", "p", "y">>, BuildDir, 1500, 60) >>
FileIds == DOMAIN AllFiles

\* name.startswith('.')
Hidden(name) == StartsWith(name, <<".">>)

\* dirs[:] = [...]: a directory is not entered if one of its components
\* starts with a dot or is in the list of the walk
Pruned(dir, pruned) == \E i \in DOMAIN dir : Hidden(dir[i]) \/ dir[i] \in pruned

\* the files that reach the body of the loop "for file in files"
Visited(files, pruned) ==
    {x \in files : ~Pruned(AllFiles[x].dir, pruned) /\ ~Hidden(AllFiles[x].name)}

DirOf == [x \in FileIds |-> AllFiles[x].dir]

\* os.walk, top down: the files of a directory come together and before the
\* files of the directories below it; nothing else about the order is fixed
WalkOrders(fs) ==
    LET n == Cardinality(fs)
    IN  {o \in [1..n -> fs] :
            /\ \A i, j \in 1..n : o[i] = o[j] => i = j
            /\ \A i, j \in 1..n :
                 ( /\ Len(DirOf[o[i]]) < Len(DirOf[o[j]])
                   /\ StartsWith(DirOf[o[j]], DirOf[o[i]]) ) => i < j
            /\ \A i, j, k \in 1..n :
                 (i < j /\ j < k /\ DirOf[o[i]] = DirOf[o[k]]) => DirOf[o[j]] = DirOf[o[i]]}

\* os.walk yields every directory, also one without files.  The empty
\* directories of the tree lie directly under repo_path; before says how
\* many of them os.walk yields ahead of the directories that hold files
Befores == {0, bulk}

\* the directories os.walk has yielded when the loop is at the i-th file of o
DirsEntered(o, i, before) ==
    Cardinality({DirOf[o[j]] : j \in 1..i} \cup {RootDir})
        + (IF \E j \in 1..i : DirOf[o[j]] # RootDir THEN before ELSE 0)

\* all the directories os.walk yields for the files a walk visits
DirsOf(files) == Cardinality({DirOf[x] : x \in files} \cup {RootDir}) + bulk

\* what can be wrong with one file of the tree during a call: "denied" (a
\* directory above it cannot be searched: stat and exists raise
\* PermissionError), "unreadable" (it can be seen but not opened), "gone" (it
\* was listed and is no longer there)
TroubleKinds == {"denied", "unreadable", "gone"}
NoTrouble == [file |-> 0, kind |-> "none"]
Troubles(fs) == {NoTrouble} \cup {[file |-> x, kind |-> k] : x \in fs, k \in TroubleKinds}

StatRaises(x, t) == t.file = x /\ t.kind \in {"denied", "gone"}
ReadRaises(x, t) == t.file = x /\ t.kind \in TroubleKinds
PathExists(x, t) ==
    IF t.file = x /\ t.kind = "denied" THEN "PermissionError"
    ELSE IF t.file = x /\ t.kind = "gone" THEN "no"
    ELSE "yes"

\* file_path.suffix.lower() of every file
SuffixOf == [x \in FileIds |-> Lower(Suffix(AllFiles[x].name))]

(***************************************************************************)
(* analyze_code_structure                                                  *)
(***************************************************************************)
MaxScanSize == 500 * 1024
ImportantLimit == 50
ImportantLines == 50

\* the body of the loop for one file: whether it is added to language_stats
Counted(x, t) ==
    /\ SuffixOf[x] \in ScanCodeExts
    /\ ~StatRaises(x, t)
    /\ AllFiles[x].size <= MaxScanSize
    /\ ~ReadRaises(x, t)

\* "Arquivos importantes (>50 linhas ou nomes específicos)"
IsImportant ==
    [x \in FileIds |->
        \/ AllFiles[x].lines > ImportantLines
        \/ Lower(AllFiles[x].name) \in ImportantNames
        \/ \E p \in ImportantParts : Contains(Lower(AllFiles[x].name), p)]

\* seen: how many files the loop had passed when it ended
RECURSIVE ScanWalk(_, _, _, _, _)
ScanWalk(o, i, t, counted, important) ==
    IF i > Len(o) THEN [counted |-> counted, important |-> important, seen |-> Len(o)]
    ELSE IF i > 1 /\ DirOf[o[i]] # DirOf[o[i - 1]] /\ Cardinality(important) > ImportantLimit
    THEN [counted |-> counted, important |-> important, seen |-> i - 1]
    ELSE ScanWalk(o, i + 1, t,
                  IF Counted(o[i], t) THEN counted \cup {o[i]} ELSE counted,
                  IF Counted(o[i], t) /\ IsImportant[o[i]]
                  THEN important \cup {o[i]} ELSE important)

AnalyzeCodeStructureOperation(o, t) ==
    LET acc == ScanWalk(o, 1, t, {}, {})
    IN  Returns([kind |-> "structure", counted |-> acc.counted, important |-> acc.important,
                 seen |-> acc.seen])

\* tools.analyze_code_structure()
AnalyzeCodeStructure ==
    /\ toolOut.op = "none"
    /\ \E o \in WalkOrders(Visited(tree, ScanPruned)) :
         \E t \in Troubles(tree), before \in Befores :
            LET safe == SafeExecute("analyze_code_structure",
                                    AnalyzeCodeStructureOperation(o, t), error_count)
            IN  /\ safe.error_count <= MaxErrors
                /\ error_count' = safe.error_count
                /\ toolOut' = [op |-> "analyze_code_structure", n |-> 0, trouble |-> t,
                               before |-> before,
                               walked |-> IF safe.result.seen = Len(o)
                                          THEN DirsOf(Visited(tree, ScanPruned))
                                          ELSE DirsEntered(o, safe.result.seen, before),
                               result |-> safe.result]
                /\ UNCHANGED <<tree, bulk, listing, file_cache, flowVars, urlVars, docVars, chatVars>>

(***************************************************************************)
(* find_key_files                                                          *)
(***************************************************************************)
KeyLimit == 12
DirLimit == 2000

Categories == {KeyPatterns[i].category : i \in DOMAIN KeyPatterns}
PatternsOf(c) == KeyPatterns[CHOOSE i \in DOMAIN KeyPatterns : KeyPatterns[i].category = c].patterns

\* the condition under "Verificar padrões"
Matches(pattern, f) ==
    \/ /\ EndsWith(pattern, <<"/">>)
       /\ Contains(DirString(f.dir), SubSeq(pattern, 1, Len(pattern) - 1))
    \/ Contains(Lower(f.name), pattern)
    \/ Lower(pattern) = Lower(f.name)
    \/ StartsWith(Lower(f.name), Lower(pattern))

\* that condition for every file, category and pattern
KeyHits ==
    [x \in FileIds |-> [c \in Categories |->
        [i \in DOMAIN PatternsOf(c) |-> Matches(PatternsOf(c)[i], AllFiles[x])]]]

\* the loop over the patterns of one category for one file: one entry for
\* every pattern that matches, while the category has fewer than 12
RECURSIVE AddMatches(_, _, _, _)
AddMatches(found, c, i, x) ==
    IF i > Len(PatternsOf(c)) THEN found
    ELSE AddMatches(IF KeyHits[x][c][i] /\ Len(found) < KeyLimit
                    THEN Append(found, x) ELSE found,
                    c, i + 1, x)

\* the walk, for the list of one category; search_count is the number of
\* directories entered
RECURSIVE KeyWalk(_, _, _, _, _)
KeyWalk(o, i, c, before, found) ==
    IF i > Len(o) THEN found
    ELSE IF DirsEntered(o, i, before) > DirLimit THEN found
    ELSE KeyWalk(o, i + 1, c, before, AddMatches(found, c, 1, o[i]))

\* the directories the loop body has run for when os.walk is exhausted or
\* search_count passes the limit
Searched(total) == IF total > DirLimit THEN DirLimit ELSE total

\* the body of find_key_files; the size and the type written next to every
\* path are left out
FindKeyFilesOperationFirstOnly(o, before) ==
    LET found == [c \in Categories |->
                    SubSeq(KeyWalk(o, 1, c, before, <<>>), 1,
                           Min(1, Len(KeyWalk(o, 1, c, before, <<>>))))]
    IN  IF \A c \in Categories : found[c] = <<>>
        THEN Returns([kind |-> "no_key_files", limited |-> FALSE, found |-> found])
        ELSE Returns([kind |-> "key_files", limited |-> FALSE, found |-> found])

\* limited: the line "Busca limitada devido a erro" is in the result; it is
\* written only by the handler of an exception, never by the break
FindKeyFilesOperation(o, before) ==
    LET found == [c \in Categories |-> KeyWalk(o, 1, c, before, <<>>)]
    IN  IF \A c \in Categories : found[c] = <<>>
        THEN Returns([kind |-> "no_key_files", limited |-> FALSE, found |-> found])
        ELSE Returns([kind |-> "key_files", limited |-> FALSE, found |-> found])

\* tools.find_key_files()
FindKeyFiles ==
    /\ toolOut.op = "none"
    /\ \E o \in WalkOrders(Visited(tree, KeyPruned)), before \in Befores :
         LET safe == SafeExecute("find_key_files", FindKeyFilesOperation(o, before),
                                 error_count)
         IN  /\ safe.error_count <= MaxErrors
             /\ error_count' = safe.error_count
             /\ toolOut' = [op |-> "find_key_files", n |-> 0, trouble |-> NoTrouble,
                            before |-> before,
                            walked |-> Searched(DirsOf(Visited(tree, KeyPruned))),
                            result |-> safe.result]
             /\ UNCHANGED <<tree, bulk, listing, file_cache, flowVars, urlVars, docVars, chatVars>>

(***************************************************************************)
(* detailed_file_analysis                                                  *)
(***************************************************************************)
HighPriority == 10
CodePriority == 5
RankMinSize == 1000
MaxAnalysisSize == 100 * 1024

\* any(pattern in file.lower() for pattern in important_patterns)
HighValue ==
    [x \in FileIds |->
        \E i \in DOMAIN ImportantPatterns :
            Contains(Lower(AllFiles[x].name), ImportantPatterns[i])]

\* "Critérios para análise detalhada": the priority of a file, 0 if it is
\* not to be analysed
Priority(x, t) ==
    IF HighValue[x] THEN HighPriority
    ELSE IF SuffixOf[x] \in RankCodeExts /\ ~StatRaises(x, t) /\ AllFiles[x].size > RankMinSize
    THEN CodePriority
    ELSE 0

Target(x, t) == [path |-> x, priority |-> Priority(x, t)]

\* the walk: a file to be analysed is appended while there are fewer than
\* 2 * max_files targets
RECURSIVE Candidates(_, _, _, _, _)
Candidates(o, i, t, n, targets) ==
    IF i > Len(o) THEN targets
    ELSE Candidates(o, i + 1, t, n,
                    IF Priority(o[i], t) > 0 /\ Len(targets) < n * 2
                    THEN Append(targets, Target(o[i], t)) ELSE targets)

\* the key of the sort, as a pair; the sort is ascending in it
SortKey(x, t) ==
    <<0 - x.priority, IF PathExists(x.path, t) = "yes" THEN 0 - AllFiles[x.path].size ELSE 0>>

KeyBefore(a, b) == a[1] < b[1] \/ (a[1] = b[1] /\ a[2] < b[2])

\* list.sort: stable
RECURSIVE Insert(_, _, _)
Insert(sorted, x, t) ==
    IF sorted = <<>> THEN <<x>>
    ELSE LET l == sorted[Len(sorted)]
         IN  IF KeyBefore(SortKey(x, t), SortKey(l, t))
             THEN Append(Insert(SubSeq(sorted, 1, Len(sorted) - 1), x, t), l)
             ELSE Append(sorted, x)

RECURSIVE SortTargets(_, _)
SortTargets(targets, t) ==
    IF targets = <<>> THEN <<>>
    ELSE Insert(SortTargets(SubSeq(targets, 1, Len(targets) - 1), t),
                targets[Len(targets)], t)

\* analysis_targets[:max_files]
TakeFirstAll(targets, n) == targets

TakeFirst(targets, n) == SubSeq(targets, 1, Min(n, Len(targets)))

\* the loop "Analisar cada arquivo": the targets whose content is analysed
Analysed(targets, t) ==
    {targets[i].path : i \in {j \in DOMAIN targets :
        /\ PathExists(targets[j].path, t) = "yes"
        /\ AllFiles[targets[j].path].size <= MaxAnalysisSize
        /\ ~ReadRaises(targets[j].path, t)}}

\* the body of detailed_file_analysis: the sort raises when exists() of a
\* target does, and the function then returns what it has written so far
DetailedFileAnalysisOperation(o, t, n) ==
    LET targets == Candidates(o, 1, t, n, <<>>)
    IN  IF \E i \in DOMAIN targets : PathExists(targets[i].path, t) = "PermissionError"
        THEN Returns([kind |-> "detailed", aborted |-> TRUE, selected |-> <<>>,
                      analysed |-> {}])
        ELSE LET selected == TakeFirst(SortTargets(targets, t), n)
             IN  Returns([kind |-> "detailed", aborted |-> FALSE, selected |-> selected,
                          analysed |-> Analysed(selected, t)])

\* tools.detailed_file_analysis(n)
DetailedFileAnalysis(n) ==
    /\ toolOut.op = "none"
    /\ \E o \in WalkOrders(Visited(tree, RankPruned)) :
         \E t \in Troubles(tree), before \in Befores :
            LET safe == SafeExecute("detailed_file_analysis",
                                    DetailedFileAnalysisOperation(o, t, n), error_count)
            IN  /\ safe.error_count <= MaxErrors
                /\ error_count' = safe.error_count
                /\ toolOut' = [op |-> "detailed_file_analysis", n |-> n, trouble |-> t,
                               before |-> before,
                               walked |-> DirsOf(Visited(tree, RankPruned)),
                               result |-> safe.result]
                /\ UNCHANGED <<tree, bulk, listing, file_cache, flowVars, urlVars, docVars, chatVars>>

Trees == {fs \in SUBSET FileIds : Cardinality(fs) <= MaxFiles}

\* how many empty directories a tree can have besides its files: none, or
\* as many as bring the walk to its limit of directories and past it
BulkSizes == {0, DirLimit - 1, DirLimit}

\* the trees the walks are run on
Shapes ==
    {s \in [files : Trees, bulk : BulkSizes] :
        s.bulk > 0 => Cardinality(s.files) <= MaxBulkFiles}

InitWalk ==
    /\ InitFlow
    /\ refIn = <<>>
    /\ refOut = NoOut
    /\ InitDocs
    /\ InitChat
    /\ \E s \in Shapes : tree = s.files /\ bulk = s.bulk
    /\ listing = <<>>
    /\ file_cache = <<>>
    /\ error_count = 0
    /\ toolOut = NoResult

NextWalk ==
    \/ AnalyzeCodeStructure
    \/ FindKeyFiles
    \/ \E n \in 0..MaxN : DetailedFileAnalysis(n)
    \/ Reply

SpecWalk == InitWalk /\ [][NextWalk]_vars

(***************************************************************************)
(* SpecDocs: the planning phase and the documentation phase of             *)
(* EnhancedDocumentationFlow.  A title is a string like every other; a     *)
(* letter with a diacritic is one character, written as the letter         *)
(* followed by the mark ("a~" is a with tilde, "c," is c with cedilla,     *)
(* "e'" is e with acute).                                                  *)
(***************************************************************************)
MaxDocs == 4
MinDocs == 3

\* the titles of _create_comprehensive_plan and of
\* _create_comprehensive_documentation
MandatoryTitles ==
    <<
    <<"V", "i", "s", "a~", "o", " ", "G", "e", "r", "a", "l", " ", "d", "o", " ", "P", "r", "o", "j", "e", "t", "o">>,
    <<"G", "u", "i", "a", " ", "d", "e", " ", "I", "n", "s", "t", "a", "l", "a", "c,", "a~", "o", " ", "e", " ", "C", "o", "n", "f", "i", "g", "u", "r", "a", "c,", "a~", "o">>,
    <<"D", "o", "c", "u", "m", "e", "n", "t", "a", "c,", "a~", "o", " ", "T", "e'", "c", "n", "i", "c", "a", " ", "d", "o", "s", " ", "A", "r", "q", "u", "i", "v", "o", "s">> >>

\* the titles a plan extracted from the chat can hold: the three above and
\* titles of the planner's own
PlanTitles ==
    MandatoryTitles \o
    <<
    <<"A", "r", "q", "u", "i", "t", "e", "t", "u", "r", "a", " ", "G", "e", "r", "a", "l">>,
    <<"A", "P", "I", " ", "R", "e", "f", "e", "r", "e", "n", "c", "e">>,
    <<"E", "s", "t", "r", "u", "t", "u", "r", "a", " ", "d", "e", " ", "A", "r", "q", "u", "i", "v", "o", "s", " ", "e", " ", "C", "o", "n", "f", "i", "g", "u", "r", "a", "c,", "a~", "o">> >>
TitleIds == DOMAIN PlanTitles

\* the words _save_documentation looks for, by file
OverviewWords == {<<"v", "i", "s", "a~", "o">>, <<"g", "e", "r", "a", "l">>}
InstallWords == {<<"i", "n", "s", "t", "a", "l", "a", "c,", "a~", "o">>, <<"c", "o", "n", "f", "i", "g", "u", "r", "a", "c,", "a~", "o">>}
TechnicalWords == {<<"t", "e'", "c", "n", "i", "c", "a">>, <<"a", "r", "q", "u", "i", "v", "o", "s">>}

OverviewFile == <<"0", "1", "_", "v", "i", "s", "a", "o", "_", "g", "e", "r", "a", "l", ".", "m", "d">>
InstallFile == <<"0", "2", "_", "i", "n", "s", "t", "a", "l", "a", "c", "a", "o", "_", "c", "o", "n", "f", "i", "g", "u", "r", "a", "c", "a", "o", ".", "m", "d">>
TechnicalFile == <<"0", "3", "_", "d", "o", "c", "u", "m", "e", "n", "t", "a", "c", "a", "o", "_", "t", "e", "c", "n", "i", "c", "a", ".", "m", "d">>
MdSuffix == <<".", "m", "d">>
DocsPrefix == <<"d", "o", "c", "s", "/">>

\* re.sub(r'[^\w\s-]', '', title): what is neither a letter, a digit, "_",
\* white space nor "-" is removed
Removed == {".", ",", ":", ";", "/", "(", ")", "!", "?", "&", "'", "+"}
Kept(c) == c \notin Removed

\* re.sub(r'[-\s]+', '_', safe_title)
Separator(c) == c \in {" ", "-"}
RECURSIVE Underscored(_, _)
Underscored(s, inRun) ==
    IF s = <<>> THEN <<>>
    ELSE IF Separator(Head(s))
    THEN (IF inRun THEN <<>> ELSE <<"_">>) \o Underscored(Tail(s), TRUE)
    ELSE <<Head(s)>> \o Underscored(Tail(s), FALSE)

\* "Nomes padronizados para as 3 seções" and the fallback to a safe name
FileName(title) ==
    LET title_lower == Lower(title)
    IN  IF \E w \in OverviewWords : Contains(title_lower, w) THEN OverviewFile
        ELSE IF \E w \in InstallWords : Contains(title_lower, w) THEN InstallFile
        ELSE IF \E w \in TechnicalWords : Contains(title_lower, w) THEN TechnicalFile
        ELSE Lower(Underscored(SelectSeq(title, Kept), FALSE)) \o MdSuffix

\* str(doc_path) for every title
PathOf == [i \in TitleIds |-> DocsPrefix \o FileName(PlanTitles[i])]

\* _save_documentation(title, content): the path, or None (here <<>>) when
\* writing the file raised
NotSaved == <<>>
SaveDocumentation(title, written) == IF written THEN PathOf[title] ELSE NotSaved

\* a plan is the list of the titles of its docs, by their index in
\* PlanTitles; no plan is the empty list
NoPlan == <<>>
CreateComprehensivePlan == <<1, 2, 3>>

\* the docs of the JSON object the planner can write in the chat
ChatPlans == UNION {[1..n -> TitleIds] : n \in 0..MaxDocs}

\* _extract_plan_safely: a JSON object with 'overview' and at least three
\* 'docs' is the plan
ExtractPlanSafely(docs) == IF Len(docs) >= MinDocs THEN docs ELSE NoPlan

\* the loops "for ... doc_item" and "for title, index in sections": every
\* title is saved in turn and the paths that were written are collected
RECURSIVE SaveEach(_, _, _)
SaveEach(titles, written, i) ==
    IF i > Len(titles) THEN <<>>
    ELSE LET doc_path == SaveDocumentation(titles[i], written[i])
         IN  (IF doc_path # NotSaved THEN <<doc_path>> ELSE <<>>)
                \o SaveEach(titles, written, i + 1)

\* _create_comprehensive_documentation
CreateComprehensiveDocumentation(docs, written) ==
    LET docs_created == SaveEach(CreateComprehensivePlan, written, 1)
    IN  [generated_docs |-> docs \o docs_created, success |-> docs_created # <<>>]

\* the body of enhanced_documentation_phase: written says which files of the
\* plan could be written, rewritten which files of the last resort
EnhancedDocumentationPhaseOperation(p, docs, written, rewritten) ==
    IF p = NoPlan THEN CreateComprehensiveDocumentation(docs, rewritten)
    ELSE LET docs_created == SaveEach(p, written, 1)
         IN  IF docs_created # <<>>
             THEN [generated_docs |-> docs \o docs_created, success |-> TRUE]
             ELSE CreateComprehensiveDocumentation(docs, rewritten)

\* enhanced_planning_phase: the plan found in the chat, else the plan of the
\* three mandatory sections; it always returns True
EnhancedPlanningPhase ==
    /\ doc_pc = "idle"
    /\ \E chat \in ChatPlans :
         LET plan_data == ExtractPlanSafely(chat)
         IN  plan' = IF plan_data # NoPlan THEN plan_data ELSE CreateComprehensivePlan
    /\ doc_pc' = "planned"
    /\ UNCHANGED <<generated_docs, docs_dir, flowVars, urlVars, toolVars, chatVars>>

AllWritten(n) == [i \in 1..n |-> TRUE]

\* enhanced_documentation_phase and the status execute_flow returns for it
EnhancedDocumentationPhase ==
    /\ doc_pc = "planned"
    /\ \E written \in [DOMAIN plan -> BOOLEAN] :
         \E rewritten \in [DOMAIN CreateComprehensivePlan -> BOOLEAN] :
            LET run == EnhancedDocumentationPhaseOperation(plan, generated_docs,
                                                           written, rewritten)
            IN  /\ (\E i \in DOMAIN plan : written[i]) =>
                       rewritten = AllWritten(Len(CreateComprehensivePlan))
                /\ generated_docs' = run.generated_docs
                /\ docs_dir' = docs_dir \o run.generated_docs
                /\ doc_pc' = IF run.success THEN "success" ELSE "error"
    /\ UNCHANGED <<plan, flowVars, urlVars, toolVars, chatVars>>

NextDocs == EnhancedPlanningPhase \/ EnhancedDocumentationPhase

SpecDocs == Init /\ [][NextDocs]_vars

(***************************************************************************)
(* SpecChat: the voice chat bots, two browser sessions of one server       *)
(* process.  Every session runs the script from the top on each event; the *)
(* history is in the session's own st.session_state, the working directory *)
(* with its files is shared by all sessions.                               *)
(***************************************************************************)
\* the run ends: the script is through, or st shows the exception raised
Ends(s, error) == [script EXCEPT ![s].pc = "idle", ![s].error = error]

\* RunnableWithMessageHistory.invoke: the question and the answer are added
\* to the history when the chain has run
GetLlmResponse(history, question) ==
    history \o <<ChatMessage("human", question), ChatMessage("ai", question)>>

\* an event in the browser of session s starts the script: the greeting on
\* the first run, then what st.chat_input() and audio_recorder() return
Rerun(s) ==
    /\ script[s].pc = "idle"
    /\ \E input \in {"none", "typed", "recorded"} :
         LET greeted == IF messages[s] = <<>> THEN <<Greeting>> ELSE messages[s]
             what == Input(s, given[s] + 1)
         IN  /\ input # "none" => given[s] < MaxInputs
             /\ given' = IF input = "none" THEN given ELSE [given EXCEPT ![s] = @ + 1]
             /\ messages' = [messages EXCEPT ![s] =
                    IF input = "typed" THEN Append(greeted, ChatMessage("human", what))
                    ELSE greeted]
             /\ script' = [script EXCEPT ![s] =
                    [pc |-> IF input = "recorded" THEN "write_audio" ELSE "respond",
                     audio_bytes |-> IF input = "recorded" THEN what ELSE Nothing,
                     response |-> Nothing, played |-> Nothing, error |-> "none"]]
    /\ UNCHANGED <<bot, audio_files, flowVars, urlVars, toolVars, docVars>>

\* the recording is written to its file
WriteAudio(s) ==
    /\ script[s].pc = "write_audio"
    /\ audio_files' = [audio_files EXCEPT ![AudioPath(s)] = script[s].audio_bytes]
    /\ script' = [script EXCEPT ![s].pc = "transcribe"]
    /\ UNCHANGED <<bot, messages, given, flowVars, urlVars, toolVars, docVars>>

\* the file is opened and transcribed; a transcript that is not empty is
\* added to the history; the llama script then unlinks its file
Transcribe(s) ==
    /\ script[s].pc = "transcribe"
    /\ \E outcome \in {"text", "empty", "raises"} :
         /\ messages' = [messages EXCEPT ![s] =
                IF outcome = "text"
                THEN Append(@, ChatMessage("human", audio_files[AudioPath(s)]))
                ELSE @]
         /\ audio_files' = IF bot = "llama" /\ outcome # "raises"
                     THEN [audio_files EXCEPT ![AudioPath(s)] = Nothing]
                     ELSE audio_files
         /\ script' = IF outcome = "raises" THEN Ends(s, "transcription")
                      ELSE [script EXCEPT ![s].pc = "respond"]
    /\ UNCHANGED <<bot, given, flowVars, urlVars, toolVars, docVars>>

\* "If last message is not from the AI, generate a new response"
Respond(s) ==
    /\ script[s].pc = "respond"
    /\ LET latest == messages[s][Len(messages[s])]
       IN  IF latest.type = "ai"
           THEN /\ script' = Ends(s, "none")
                /\ UNCHANGED messages
           ELSE \E outcome \in {"answer", "raises"} :
                  IF outcome = "raises"
                  THEN /\ script' = Ends(s, "llm")
                       /\ UNCHANGED messages
                  ELSE /\ messages' = [messages EXCEPT ![s] = GetLlmResponse(@, latest.content)]
                       /\ script' = [script EXCEPT ![s].pc = "text_to_speech",
                                                   ![s].response = latest.content]
    /\ UNCHANGED <<bot, audio_files, given, flowVars, urlVars, toolVars, docVars>>

\* text_to_speech: the llama script keeps the speech in memory and plays
\* it, the openai script streams it to SpeechPath
TextToSpeech(s) ==
    /\ script[s].pc = "text_to_speech"
    /\ \E outcome \in {"speech", "raises"} :
         IF outcome = "raises"
         THEN script' = Ends(s, "speech") /\ UNCHANGED audio_files
         ELSE IF bot = "llama"
         THEN /\ script' = [Ends(s, "none") EXCEPT ![s].played = script[s].response]
              /\ UNCHANGED audio_files
         ELSE /\ audio_files' = [audio_files EXCEPT ![SpeechPath] = script[s].response]
              /\ script' = [script EXCEPT ![s].pc = "autoplay"]
    /\ UNCHANGED <<bot, messages, given, flowVars, urlVars, toolVars, docVars>>

\* autoplay_audio(audio_file): open, read, st.audio
AutoplayAudio(s) ==
    /\ script[s].pc = "autoplay"
    /\ script' = IF audio_files[SpeechPath] = Nothing THEN Ends(s, "FileNotFoundError")
                 ELSE [script EXCEPT ![s].pc = "remove", ![s].played = audio_files[SpeechPath]]
    /\ UNCHANGED <<bot, messages, audio_files, given, flowVars, urlVars, toolVars, docVars>>

\* os.remove(audio_file)
RemoveAudio(s) ==
    /\ script[s].pc = "remove"
    /\ script' = Ends(s, IF audio_files[SpeechPath] = Nothing THEN "FileNotFoundError" ELSE "none")
    /\ audio_files' = [audio_files EXCEPT ![SpeechPath] = Nothing]
    /\ UNCHANGED <<bot, messages, given, flowVars, urlVars, toolVars, docVars>>

\* the server is started with one of the two scripts
InitChatRun ==
    /\ InitFlow /\ refIn = <<>> /\ refOut = NoOut /\ InitTools /\ InitDocs
    /\ bot \in Bots
    /\ messages = [s \in Sessions |-> <<>>]
    /\ script = [s \in Sessions |-> AtRest]
    /\ audio_files = [f \in FilePaths |-> Nothing]
    /\ given = [s \in Sessions |-> 0]

NextChat ==
    \E s \in Sessions :
        \/ Rerun(s)
        \/ WriteAudio(s)
        \/ Transcribe(s)
        \/ Respond(s)
        \/ TextToSpeech(s)
        \/ AutoplayAudio(s)
        \/ RemoveAudio(s)

SpecChat == InitChatRun /\ [][NextChat]_vars

(***************************************************************************)
(* Properties                                                              *)
(***************************************************************************)
LastStep == steps[Len(steps)]
Returned == pc \in {"returned", "finished"}
NothingTouched == disk = entryDisk /\ cmds = <<>> /\ removals = <<>> /\ repo_path = NoPath

StepOrder == <<"validate", "connectivity", "exists", "prepare", "cleanup", "clone", "postcheck">>
StepOrderNoCleanup == <<"validate", "connectivity", "exists", "prepare", "clone", "postcheck">>
StepNames == [i \in DOMAIN steps |-> steps[i].name]
IsPrefix(a, b) == Len(a) <= Len(b) /\ a = SubSeq(b, 1, Len(a))

\* C1: the steps of clone_repository run in the order validation,
\* connectivity probe, existence probe, preparation and cleanup, clone,
\* post-clone checks; a failed validation or probe (a 404 included) ends the
\* call with False, with the disk as it was at entry, no removal and no git
\* clone; nothing is touched before the three gates are passed.
C1_StepsAreHardGates ==
    /\ IsPrefix(StepNames, StepOrder) \/ IsPrefix(StepNames, StepOrderNoCleanup)
    /\ (steps = <<>> \/ LastStep.name \in {"validate", "connectivity", "exists"})
          => NothingTouched
    /\ steps # <<>> =>
          /\ (LastStep.name = "validate" /\ LastStep.answer = "no_match")
                => Returned /\ ret = "false"
          /\ (LastStep.name = "connectivity" /\ LastStep.answer # "200")
                => Returned /\ ret = "false"
          /\ (LastStep.name = "exists"
                /\ LastStep.answer \in {"other_status", "http_404", "http_403", "http_other"})
                => Returned /\ ret = "false"

\* C1 witness: a 404 ended a call while an earlier working copy was on disk
C1_Witness ==
    /\ pc = "returned"
    /\ steps # <<>>
    /\ LastStep = Step("exists", "http_404")
    /\ ret = "false"
    /\ \E l \in Locs : entryDisk[l].runs = {"old"}

\* the fixed shape https://github.com/<owner>/<name>[/], owner and name
\* non-empty and made of letters, digits, "_", "-" and "."
IsSegment(x) == x # <<>> /\ \A i \in 1..Len(x) : x[i] \in SegChars
HasFixedShape(s) ==
    /\ StartsWith(s, GithubPrefix)
    /\ LET r == Drop(s, Len(GithubPrefix))
       IN  \E i \in 1..Len(r) :
             /\ r[i] = "/"
             /\ IsSegment(SubSeq(r, 1, i - 1))
             /\ LET n == Drop(r, i)
                IN  \/ IsSegment(n)
                    \/ n # <<>> /\ n[Len(n)] = "/" /\ IsSegment(SubSeq(n, 1, Len(n) - 1))

\* C2: a reference passes the validation step if and only if it has the
\* fixed shape.
C2_ValidIffFixedShape ==
    refOut.stage # "none" => (refOut.valid <=> HasFixedShape(refIn))

\* C3: the target path of a reference that passed validation is a direct
\* child of workdir, never workdir itself or a directory outside it.
C3_TargetIsChildOfWorkdir ==
    refOut.stage = "derived" => refOut.path.kind = "child" /\ refOut.path.name # <<>>

\* C4: the first git clone of a call finds nothing at the target, no git
\* clone is run onto content of an earlier call, and once git clone was run
\* the target holds content of the current call only.
C4_NeverClonesOnTop ==
    /\ \A i \in DOMAIN cmds :
          /\ "old" \notin cmds[i].onto
          /\ i = 1 => ~cmds[i].found
    /\ cmds # <<>> => RunsAt(disk, repo_path) \subseteq {"cur"}

\* C4 witness: a call succeeded where an earlier call had left its copy,
\* which had to be renamed aside
C4_Witness ==
    /\ ret = "true"
    /\ entryDisk[repo_path].runs = {"old"}
    /\ disk[repo_path].runs = {"cur"}
    /\ removals # <<>>
    /\ removals[Len(removals)] = "rename"

\* C5: True is returned only after a git clone that exited with 0 and with
\* the target an existing, non-empty directory; a target that passes these
\* checks is accepted without a .git directory.
C5_SuccessOnlyAfterChecks ==
    /\ ret = "true" =>
          /\ cmds # <<>>
          /\ cmds[Len(cmds)].ok
          /\ Exists(disk, repo_path)
          /\ IsDir(disk, repo_path)
          /\ NonEmpty(disk, repo_path)
    /\ (/\ pc = "returned"
        /\ steps # <<>>
        /\ LastStep.name = "postcheck"
        /\ last.kind = "listed"
        /\ IsDir(disk, repo_path)
        /\ NonEmpty(disk, repo_path)) => ret = "true"

\* C5 witness: a clone without .git was accepted
C5_Witness ==
    /\ pc = "returned"
    /\ ret = "true"
    /\ ~HasGit(disk, repo_path)

\* C6: after a call that returned False the flow references no working
\* copy: no repo_path, no phase "cloned", no tools.
C6_FailureLeavesNoWorkingCopy ==
    (pc = "returned" /\ ret = "false") =>
        /\ state.repo_path = NoPath
        /\ state.current_phase # "cloned"
        /\ ~tools.set

ScopeOfAttempt(i) ==
    CASE i = 1 -> "depth1_single_branch"
      [] i = 2 -> "single_branch"
      [] i = 3 -> "full"

\* C7: a call runs git clone at most 3 times, attempt 1 shallow and
\* single-branch, attempt 2 single-branch, attempt 3 full; every attempt but
\* the last one failed, and after an exit code 0 no further attempt is made.
C7_AtMostThreeWidening ==
    /\ Len(cmds) <= 3
    /\ \A i \in DOMAIN cmds :
          /\ cmds[i].scope = ScopeOfAttempt(i)
          /\ i < Len(cmds) => ~cmds[i].ok
    /\ (cmds # <<>> /\ cmds[Len(cmds)].ok) => pc # "clone"

\* C7 witness: the third, full clone succeeded
C7_Witness ==
    /\ Len(cmds) = 3
    /\ cmds[3].ok
    /\ cmds[3].scope = "full"

IsTerminal(e) == e \cap (NotFoundPhrases \cup DeniedPhrases) # {}

\* C8: a git clone that fails with a not-found or permission error ends the
\* call with False at once, whichever attempt it was.
C8_TerminalErrorStops ==
    (last.kind = "error" /\ IsTerminal(last.stderr)) => Returned /\ ret = "false"

\* C8 witness: the second attempt met a terminal error
C8_Witness ==
    /\ last.kind = "error"
    /\ IsTerminal(last.stderr)
    /\ Len(cmds) = 2
    /\ pc = "returned"

ExistsAnswer(i) == steps[i].name = "exists"

InFlow == entry \in {"execute_flow", "execute_enhanced_flow"}

\* C10: planning and documentation are started, in this order, only in a
\* run whose clone_repository returned True, and never while the clone is
\* still going on; a run whose clone failed ends with an error result and
\* without either phase.
C10_PhasesOnlyAfterClone ==
    /\ phases \in {<<>>, <<"planning">>, <<"planning", "documentation">>}
    /\ (phases # <<>> \/ pc \in {"planning", "documentation"}) =>
          /\ InFlow
          /\ ret = "true"
          /\ state.repo_path = repo_path
          /\ repo_path # NoPath
    /\ (pc = "finished" /\ InFlow /\ ret \in {"false", "raised"}) =>
          /\ result = "error"
          /\ phases = <<>>

\* C10 witness: a run of execute_flow ended after a failed clone
C10_Witness ==
    /\ pc = "finished"
    /\ entry = "execute_flow"
    /\ ret = "false"
    /\ result = "error"
    /\ cmds # <<>>

(***************************************************************************)
(* file_read: the error counter and the cache                              *)
(***************************************************************************)
\* C13: every file-level failure that a call of a tool meets (permission
\* denied, file not found, I/O error) raises error_count by exactly one, and
\* error_count never goes down
C13_EveryFailureCounted ==
    [][/\ error_count' >= error_count
       /\ (toolOut'.op = "file_read" /\ toolOut'.failure # "none")
            => error_count' = error_count + 1]_vars

CacheSize == Cardinality(DOMAIN file_cache)

\* C19: the cache never holds more than 30 entries; a result computed for a
\* path that is not cached is admitted whenever there is room; an entry, once
\* admitted, stays with the value it was admitted with; and once the cache is
\* full a call leaves it as it is
C19_CacheFirstComeNeverEvicted ==
    [][/\ Cardinality(DOMAIN file_cache') <= CacheLimit
       /\ \A p \in DOMAIN file_cache :
            p \in DOMAIN file_cache' /\ file_cache'[p] = file_cache[p]
       /\ CacheSize >= CacheLimit => file_cache' = file_cache
       /\ ( /\ toolOut'.op = "file_read"
            /\ toolOut'.result.kind = "analysis"
            /\ toolOut'.path \notin DOMAIN file_cache
            /\ CacheSize < CacheLimit )
            => /\ toolOut'.path \in DOMAIN file_cache'
               /\ file_cache'[toolOut'.path] = toolOut'.result]_vars

\* the cache is full and the latest call computed a result for a path that
\* is not in it
C19_Witness ==
    /\ CacheSize = CacheLimit
    /\ toolOut.op = "file_read"
    /\ toolOut.result.kind = "analysis"
    /\ toolOut.path \notin DOMAIN file_cache

(***************************************************************************)
(* directory_read: what is displayed and what is reported as left out      *)
(***************************************************************************)
Displayed == Total(toolOut.result.shown, Lists)

\* C18: a listing displays at most 15 directories, 20 code files, 10 config
\* files, 10 doc files and 15 other files, and the entries displayed plus the
\* reported remainder are the number of immediate children
C18_DisplayedPlusRemainder ==
    (toolOut.op = "directory_read" /\ toolOut.result.kind = "listing") =>
        /\ \A l \in Lists : toolOut.result.shown[l] <= Shown(l)
        /\ Displayed + toolOut.result.remainder = Total(listing, ChildKinds)


\* the files detailed_file_analysis is to analyse in the tree of the state,
\* as the call of the state saw them
Eligible == {x \in Visited(tree, RankPruned) : Priority(x, toolOut.trouble) > 0}

\* the paths of a list of targets
PathsOf(targets) == {targets[i].path : i \in DOMAIN targets}

\* C11: a failure on one file never aborts the processing of the remaining
\* files: when detailed_file_analysis has room for every file to be analysed
\* (max_files is at least their number), every such file other than the one
\* in trouble, and small enough to be read, is analysed.
C11_FailureNeverAborts ==
    (toolOut.op = "detailed_file_analysis" /\ Cardinality(Eligible) <= toolOut.n) =>
        \A x \in Eligible :
            (x # toolOut.trouble.file /\ AllFiles[x].size <= MaxAnalysisSize) =>
                x \in toolOut.result.analysed

\* C12: in analyze_code_structure every non-pruned file the walk visits
\* yields one record: the number of files recorded equals the number of
\* non-pruned files visited.
C12_OneRecordPerVisitedFile ==
    toolOut.op = "analyze_code_structure" =>
        Cardinality(toolOut.result.counted) = Cardinality(Visited(tree, ScanPruned))

\* the size the sort of detailed_file_analysis sees: a file that no longer
\* exists has none
SizeSeen(x, t) == IF PathExists(x, t) = "yes" THEN AllFiles[x].size ELSE 0

\* C14: the list selected by detailed_file_analysis(N) has at most N entries
\* and is ordered by descending priority and, within equal priority, by
\* descending file size.
C14_AtMostNSorted ==
    toolOut.op = "detailed_file_analysis" =>
        LET selected == toolOut.result.selected
        IN  /\ Len(selected) <= toolOut.n
            /\ \A i, j \in DOMAIN selected :
                 i < j =>
                    \/ selected[i].priority > selected[j].priority
                    \/ /\ selected[i].priority = selected[j].priority
                       /\ SizeSeen(selected[i].path, toolOut.trouble)
                            >= SizeSeen(selected[j].path, toolOut.trouble)

\* a call with N = 2 that had more than two candidates and selected two of
\* equal priority and different sizes
C14_Witness ==
    /\ toolOut.op = "detailed_file_analysis"
    /\ toolOut.n = 2
    /\ Cardinality(Eligible) > 2
    /\ Len(toolOut.result.selected) = 2
    /\ toolOut.result.selected[1].priority = toolOut.result.selected[2].priority
    /\ AllFiles[toolOut.result.selected[1].path].size
         > AllFiles[toolOut.result.selected[2].path].size

\* C15: the files selected are the N highest-ranked of all files to be
\* analysed: no file left out ranks strictly before a selected one, and
\* every order in which the walk can enumerate the same tree selects the
\* same files.  Stated for calls during which no file is in trouble.
C15_TopNOfAllEligible ==
    (toolOut.op = "detailed_file_analysis" /\ toolOut.trouble = NoTrouble) =>
        LET t == toolOut.trouble
            sel == PathsOf(toolOut.result.selected)
        IN  /\ \A x \in Eligible \ sel : \A y \in sel :
                 ~KeyBefore(SortKey(Target(x, t), t), SortKey(Target(y, t), t))
            /\ \A o \in WalkOrders(Visited(tree, RankPruned)) :
                 PathsOf(DetailedFileAnalysisOperation(o, t, toolOut.n).value.selected) = sel

\* the priority the ranking is said to give: 10 to a name that matches the
\* high-value patterns (README among them), 5 to a file with one of the code
\* extensions of analyze_code_structure that is larger than 1000 bytes
StatedPriority(x) ==
    IF \E i \in DOMAIN ImportantPatterns :
          Contains(Lower(AllFiles[x].name), Lower(ImportantPatterns[i]))
    THEN HighPriority
    ELSE IF SuffixOf[x] \in ScanCodeExts /\ AllFiles[x].size > RankMinSize
    THEN CodePriority
    ELSE 0

\* C16: every visited file is ranked 10 if its name matches the high-value
\* pattern set, otherwise 5 if it has a code extension (the set used by the
\* code-structure scan) and is larger than 1000 bytes, otherwise 0: when
\* max_files leaves room for every visited file, the selected list holds
\* exactly the visited files of stated priority above 0, each with it.
C16_PriorityByPatternAndExtension ==
    ( /\ toolOut.op = "detailed_file_analysis"
      /\ toolOut.trouble = NoTrouble
      /\ Cardinality(Visited(tree, RankPruned)) <= toolOut.n ) =>
        {toolOut.result.selected[i] : i \in DOMAIN toolOut.result.selected}
            = {[path |-> x, priority |-> StatedPriority(x)] :
                 x \in {y \in Visited(tree, RankPruned) : StatedPriority(y) > 0}}

\* the members of every category in a result of find_key_files
Members(found) == [c \in Categories |-> {found[c][i] : i \in DOMAIN found[c]}]

\* the number of (file, pattern) pairs of a category that match in the tree
MatchCount(c) ==
    Cardinality({p \in Visited(tree, KeyPruned) \X DOMAIN PatternsOf(c) : KeyHits[p[1]][c][p[2]]})

\* C17 as stated: for one and the same set of files every category of
\* find_key_files has the same members whatever the order of the walk, also
\* when more than 12 entries match a category.
C17_OrderIndependent ==
    toolOut.op = "find_key_files" =>
        \A o \in WalkOrders(Visited(tree, KeyPruned)), b \in Befores :
            Members(FindKeyFilesOperation(o, b).value.found) = Members(toolOut.result.found)

\* C17 amended: while no category has more than 12 matching (file, pattern)
\* pairs in the tree and the tree has no more than 2000 directories, every
\* category of find_key_files has the same members whatever the order of
\* the walk.
C17_OrderIndependentWithinLimit ==
    (/\ toolOut.op = "find_key_files"
     /\ \A c \in Categories : MatchCount(c) <= KeyLimit
     /\ DirsOf(Visited(tree, KeyPruned)) <= DirLimit) =>
        \A o \in WalkOrders(Visited(tree, KeyPruned)), b \in Befores :
            Members(FindKeyFilesOperation(o, b).value.found) = Members(toolOut.result.found)

\* a call on a tree with files in two directories, where a category has two
\* members and no category has more than 12 matching pairs
C17_Witness ==
    /\ toolOut.op = "find_key_files"
    /\ \A c \in Categories : MatchCount(c) <= KeyLimit
    /\ \E c \in Categories : Cardinality(Members(toolOut.result.found)[c]) >= 2
    /\ Cardinality({DirOf[x] : x \in Visited(tree, KeyPruned)}) >= 2


\* the paths of the three mandatory sections
MandatoryPaths == {DocsPrefix \o OverviewFile, DocsPrefix \o InstallFile, DocsPrefix \o TechnicalFile}

\* C20: whenever the documentation phase reports success, generated_docs
\* lists exactly the three mandatory sections, each saved as its own file:
\* three entries, and their paths are the three mandatory paths.  Stated
\* for the runs in which every file of the plan could be written.
C20_ThreeSectionsAlways ==
    (doc_pc = "success" /\ Len(generated_docs) = Len(plan)) =>
        /\ Len(generated_docs) = 3
        /\ {generated_docs[i] : i \in DOMAIN generated_docs} = MandatoryPaths


\* the removal strategies in the order of the code, then the rename
RemovalOrder == <<"rmtree", "force_remove_directory", "shell_rm", "rename">>

\* C21: when a directory exists at the target path, clone_repository makes
\* at most 3 removal attempts in the order recursive remove, forced remove,
\* shell remove; a strategy is tried only while the directory is still
\* there; the loop stops and the clone step follows as soon as it is gone;
\* after the third attempt the directory is renamed aside and the clone step
\* follows; the call returns in this step only when the rename fails.
C21_EscalatingRemoval ==
    [][ /\ pc \in {"cleanup", "rename"} =>
             /\ Exists(disk, repo_path)
             /\ Len(removals) < Len(RemovalOrder)
             /\ removals' = Append(removals, RemovalOrder[Len(removals) + 1])
             /\ (pc = "rename") = (Len(removals) = CleanupAttempts)
        /\ (pc \in {"cleanup", "rename"} /\ ~Exists(disk', repo_path)) => pc' = "clone"
        /\ (pc = "cleanup" /\ Exists(disk', repo_path)) =>
             pc' = IF Len(removals') < CleanupAttempts THEN "cleanup" ELSE "rename"
        /\ (pc \in {"cleanup", "rename"} /\ pc' = "returned") =>
             /\ pc = "rename"
             /\ last'.kind = "rename_raised"
             /\ Exists(disk', repo_path)
             /\ ret' = "false"
      ]_vars

\* three strategies left the directory in place, it was renamed aside and
\* the clone step is next
C21_Witness ==
    /\ pc = "clone"
    /\ removals = RemovalOrder
    /\ cmds = <<>>
    /\ ~Exists(disk, repo_path)


\* git ended for a cause that can pass: the 300-second timeout, or the exit
\* with "already exists and is not an empty directory"
Transient(a) == a.kind = "timeout" \/ (a.kind = "error" /\ ExistsPhrase \in a.stderr)

\* C22: a transient clone failure is fatal to that attempt only: after a
\* timeout or an "already exists and is not an empty directory" failure in
\* the first or second attempt the loop goes on to the next attempt, whose
\* scope is the next wider one, and the call returns failure for such a
\* cause only when it was the last attempt.
C22_TransientFailureRetried ==
    [][ (pc = "clone" /\ Transient(last')) =>
            /\ cmds' = Append(cmds, cmds'[Len(cmds')])
            /\ cmds'[Len(cmds')].scope = CloneScope(attempt)
            /\ Len(cmds') = attempt + 1
            /\ IF attempt < MaxRetries - 1
               THEN pc' = "clone" /\ attempt' = attempt + 1 /\ ret' = ret
               ELSE pc' = "returned" /\ ret' = "false"
      ]_vars

\* the first attempt ended with "already exists ...", the second with a
\* timeout, and the third attempt is next
C22_Witness ==
    /\ pc = "clone"
    /\ attempt = 2
    /\ Len(cmds) = 2
    /\ cmds[2].scope = "single_branch"
    /\ last.kind = "timeout"


\* the files named in the result of the latest call of a walk
Reported ==
    CASE toolOut.op = "analyze_code_structure" ->
             toolOut.result.counted \cup toolOut.result.important
      [] toolOut.op = "find_key_files" ->
             UNION {Members(toolOut.result.found)[c] : c \in Categories}
      [] toolOut.op = "detailed_file_analysis" ->
             PathsOf(toolOut.result.selected) \cup toolOut.result.analysed
      [] OTHER -> {}

\* C23: the three walks apply one traversal rule: no file under a hidden
\* directory or under a directory of the deny-list (node_modules,
\* __pycache__, target, build, dist, vendor) is visited, counted or reported
\* by any of them.
C23_SameTraversalRule ==
    \A x \in Reported : ~Pruned(AllFiles[x].dir, ScanPruned)


\* the walk of the last call and the result's mark of being incomplete
WalkPruned ==
    CASE toolOut.op = "analyze_code_structure" -> ScanPruned
      [] toolOut.op = "find_key_files" -> KeyPruned
      [] toolOut.op = "detailed_file_analysis" -> RankPruned
MarkedPartial ==
    toolOut.op = "find_key_files" /\ toolOut.result.kind # "error" /\ toolOut.result.limited

\* C24: no walk processes more than 2000 directories, and a walk that stops
\* before it has been through every directory marks its result as partial.
C24_BoundedWalkMarkedPartial ==
    toolOut.op \in {"analyze_code_structure", "find_key_files", "detailed_file_analysis"} =>
        /\ toolOut.walked <= DirLimit
        /\ toolOut.walked < DirsOf(Visited(tree, WalkPruned)) => MarkedPartial


\* the name as stated: the last segment, less one ".git" at its end
TrailingDotGitRemoved(s) ==
    IF EndsWith(s, DotGit) THEN SubSeq(s, 1, Len(s) - Len(DotGit)) ELSE s

\* C25: the local directory name is the last segment of the URL with only a
\* ".git" at its end removed; a ".git" elsewhere in the name stays.
C25_OnlyTrailingDotGitRemoved ==
    refOut.stage = "derived" => refOut.name = TrailingDotGitRemoved(LastSegment(refIn))


\* C26: every git clone attempt starts with nothing at the target path: what
\* an earlier attempt left there is gone before the next attempt runs.
C26_CloneStartsOnFreePath ==
    \A i \in 1..Len(cmds) : ~cmds[i].found


\* C27: file_read only reads inside the repository root: for a path that
\* resolves outside it, through ".." or as an absolute path, the call gives
\* an error and no content.
C27_ReadsStayInsideRoot ==
    (toolOut.op = "file_read" /\ ~StartsWith(Resolved(toolOut.target, <<>>), RepoRoot)) =>
        toolOut.result.kind \in {"error", "not_found", "not_a_file", "access_error"}


\* C28: in the result of find_key_files every category has at most 12
\* entries and lists a file at most once, also when several patterns of the
\* category match the file.
C28_CategoriesBoundedAndDistinct ==
    toolOut.op = "find_key_files" =>
        \A c \in Categories :
            /\ Len(toolOut.result.found[c]) <= KeyLimit
            /\ \A i, j \in DOMAIN toolOut.result.found[c] :
                   toolOut.result.found[c][i] = toolOut.result.found[c][j] => i = j


\* the human messages of a history
Humans(history) == {i \in DOMAIN history : history[i].type = "human"}

\* C29: in both chat bots the history of a session starts with the AI
\* greeting and then alternates between one human message and one AI
\* message, every input is stored once, and when a run of the script has
\* ended the last message is an AI message.
C29_HistoryAlternates ==
    \A s \in Sessions :
        messages[s] # <<>> =>
            /\ messages[s][1] = Greeting
            /\ \A i \in 1..(Len(messages[s]) - 1) : messages[s][i].type # messages[s][i + 1].type
            /\ \A i, j \in Humans(messages[s]) :
                   messages[s][i].content = messages[s][j].content => i = j
            /\ script[s].pc = "idle" => messages[s][Len(messages[s])].type = "ai"

\* C30: with two sessions of the openai bot in one process, a session
\* transcribes only its own recordings and plays only the speech of its own
\* response, and no run ends because its speech file was missing.
C30_SessionsKeepTheirAudio ==
    bot = "openai" =>
        \A s \in Sessions :
            /\ \A i \in Humans(messages[s]) : messages[s][i].content.by = s
            /\ script[s].played \in {Nothing, script[s].response}
            /\ script[s].error # "FileNotFoundError"

=============================================================================
